---- MODULE Spec2Model ----
(***************************************************************************)
(* A model of the DNS resolver of this repository: the 512-byte wire       *)
(* buffer (byte_packet_buffer.rs), the record, question, header and packet *)
(* codecs (dns_packet.rs and below) and the query service (main.rs).       *)
(*                                                                         *)
(* Bytes are numbers 0..255, a String is a sequence of bytes, a Result is  *)
(* a record [st, msg, b, val]: st is "Ok", "Err" (a SimpleError carrying   *)
(* msg) or "Panic" (an unwinding panic), b is the buffer as the call left  *)
(* it, val the value returned.                                             *)
(***************************************************************************)
EXTENDS Integers, Sequences, FiniteSets, TLC

VARIABLES
    buf,        \* BytePacketBuffer.buf : 512 bytes, byte i at buf[i + 1]
    pos,        \* BytePacketBuffer.pos
    pc,         \* where the driver of the buffer under test stands
    input,      \* the value handed to the operation under test
    last,       \* the last operation: its name, the cursor before it, its result
    nops,       \* number of buffer operations applied so far
    svc,        \* the service: where main / handle_query / lookup stands
    request,    \* handle_query: the decoded request and the question popped
    stack,      \* recursive_lookup: one frame per active call
    queries,    \* upstream queries sent while handling the current request
    replies,    \* datagrams sent to the client while handling the current request
    handled     \* number of request datagrams read so far

vars == <<buf, pos, pc, input, last, nops, svc, request, stack, queries, replies, handled>>

----------------------------------------------------------------------------
(* Bit operations on naturals, as Rust's &, | and ^ on unsigned integers.  *)

RECURSIVE BitAnd(_, _)
BitAnd(x, y) ==
    IF x = 0 \/ y = 0 THEN 0
    ELSE (IF x % 2 = 1 /\ y % 2 = 1 THEN 1 ELSE 0) + 2 * BitAnd(x \div 2, y \div 2)

RECURSIVE BitOr(_, _)
BitOr(x, y) ==
    IF x = 0 THEN y
    ELSE IF y = 0 THEN x
    ELSE (IF x % 2 = 1 \/ y % 2 = 1 THEN 1 ELSE 0) + 2 * BitOr(x \div 2, y \div 2)

RECURSIVE BitXor(_, _)
BitXor(x, y) ==
    IF x = 0 THEN y
    ELSE IF y = 0 THEN x
    ELSE (IF x % 2 # y % 2 THEN 1 ELSE 0) + 2 * BitXor(x \div 2, y \div 2)

\* `x as u8`, `x as u16`: truncation to the low bits.
AsU8(x) == x % 256
AsU16(x) == x % 65536

----------------------------------------------------------------------------
(* Results.                                                                *)

Ok(b, v) == [st |-> "Ok", msg |-> "", b |-> b, val |-> v]
Err(b, m, v) == [st |-> "Err", msg |-> m, b |-> b, val |-> v]
Panic(b, m, v) == [st |-> "Panic", msg |-> m, b |-> b, val |-> v]

\* The `?` operator: r's successor F applied to the buffer r left, unless r failed.
Try(r, F(_)) == IF r.st = "Ok" THEN F(r.b) ELSE r

\* r with val replaced: what a failed call leaves its caller with
Fail(r, v) == [r EXCEPT !.val = v]

\* `let x = r?;`: F applied to the successful result r, r's failure (carrying
\* the value v) otherwise
Then(r, v, F(_)) == IF r.st = "Ok" THEN F(r) ELSE Fail(r, v)

\* `let x = v;`
Let(v, F(_)) == F(v)

EndOfBuffer == "End of buffer"

----------------------------------------------------------------------------
(* BytePacketBuffer                                                        *)

BufLen == 512

\* BytePacketBuffer::new
\* The byte at index i of the array is element i + 1 of the sequence buf.
NewBuffer == [buf |-> [i \in 1..BufLen |-> 0], pos |-> 0]

\* BytePacketBuffer::steps: no check, never fails
steps(b, n) == Ok([b EXCEPT !.pos = b.pos + n], 0)

\* BytePacketBuffer::seek: no check, never fails
seek(b, p) == Ok([b EXCEPT !.pos = p], 0)

\* BytePacketBuffer::read
read(b) ==
    IF b.pos >= 512 THEN Err(b, EndOfBuffer, 0)
    ELSE Ok(steps(b, 1).b, b.buf[b.pos + 1])

\* BytePacketBuffer::get
get(b, p) ==
    IF p >= 512 THEN Err(b, EndOfBuffer, 0)
    ELSE Ok(b, b.buf[p + 1])

\* BytePacketBuffer::get_range
get_range(b, start, len) ==
    IF start + len >= 512 THEN Err(b, EndOfBuffer, <<>>)
    ELSE Ok(b, [i \in 1..len |-> b.buf[start + i]])

\* a read of two bytes without the check of the room left
read_u16_unchecked(b) ==
    Then(read(b), 0, LAMBDA hi :
    Then(read(hi.b), 0, LAMBDA lo :
        Ok(lo.b, BitXor(AsU16(hi.val * 256), lo.val))))

\* BytePacketBuffer::read_u16
read_u16(b) ==
    IF b.pos >= 511 THEN Err(b, EndOfBuffer, 0)
    ELSE Then(read(b), 0, LAMBDA hi :
         Then(read(hi.b), 0, LAMBDA lo :
             Ok(lo.b, BitXor(AsU16(hi.val * 256), lo.val))))

\* A u32 is kept as its two 16-bit halves <<high, low>>, so that no value leaves
\* the range of the checker's integers: ((hi as u32) << 16) ^ (lo as u32).
U32(hi, lo) == <<hi, lo>>

\* BytePacketBuffer::read_u32
read_u32(b) ==
    IF b.pos >= 509 THEN Err(b, EndOfBuffer, U32(0, 0))
    ELSE Then(read_u16(b), U32(0, 0), LAMBDA hi :
         Then(read_u16(hi.b), U32(0, 0), LAMBDA lo :
             Ok(lo.b, U32(hi.val, lo.val))))

\* BytePacketBuffer::write
write(b, val) ==
    IF b.pos >= 512 THEN Err(b, EndOfBuffer, 0)
    ELSE Ok([buf |-> [b.buf EXCEPT ![b.pos + 1] = val], pos |-> b.pos + 1], 0)

\* BytePacketBuffer::write_u16
write_u16(b, val) ==
    Try(write(b, AsU8(val \div 256)), LAMBDA b1 :
        write(b1, AsU8(BitAnd(val, 255))))

\* BytePacketBuffer::write_u32
write_u32(b, val) ==
    Try(write(b, AsU8(val[1] \div 256)), LAMBDA b1 :
    Try(write(b1, AsU8(BitAnd(val[1], 255))), LAMBDA b2 :
    Try(write(b2, AsU8(BitAnd(val[2] \div 256, 255))), LAMBDA b3 :
        write(b3, AsU8(BitAnd(val[2], 255))))))

\* BytePacketBuffer::set: an index outside the array panics (Rust's bounds check;
\* a negative index stands for `0 - 1` on usize, which panics on overflow in a
\* debug build and indexes at usize::MAX, out of bounds, in a release build).
set(b, p, val) ==
    IF p < 0 \/ p >= BufLen THEN Panic(b, "index out of bounds", 0)
    ELSE Ok([b EXCEPT !.buf[p + 1] = val], 0)

\* BytePacketBuffer::set_u16
set_u16(b, p, val) ==
    Try(set(b, p, AsU8(val \div 256)), LAMBDA b1 :
        set(b1, p + 1, AsU8(BitAnd(val, 255))))

----------------------------------------------------------------------------
(* Strings: sequences of bytes.                                            *)

Dot == 46

\* str::from_utf8: whether the bytes are well-formed UTF-8 (RFC 3629).
IsCont(x) == x >= 128 /\ x <= 191

\* the bytes of s after its first k
DropFirst(s, k) == SubSeq(s, k + 1, Len(s))

RECURSIVE Utf8Valid(_)
Utf8Valid(s) ==
    IF \A i \in 1..Len(s) : s[i] < 128 THEN TRUE
    ELSE IF s[1] < 128 THEN Utf8Valid(DropFirst(s, 1))
    ELSE IF s[1] >= 194 /\ s[1] <= 223
         THEN Len(s) >= 2 /\ IsCont(s[2]) /\ Utf8Valid(DropFirst(s, 2))
    ELSE IF s[1] >= 224 /\ s[1] <= 239
         THEN /\ Len(s) >= 3
              /\ IsCont(s[2]) /\ IsCont(s[3])
              /\ (s[1] = 224 => s[2] >= 160)
              /\ (s[1] = 237 => s[2] <= 159)
              /\ Utf8Valid(DropFirst(s, 3))
    ELSE IF s[1] >= 240 /\ s[1] <= 244
         THEN /\ Len(s) >= 4
              /\ IsCont(s[2]) /\ IsCont(s[3]) /\ IsCont(s[4])
              /\ (s[1] = 240 => s[2] >= 144)
              /\ (s[1] = 244 => s[2] <= 143)
              /\ Utf8Valid(DropFirst(s, 4))
    ELSE FALSE

\* str::to_lowercase on the ASCII range (A-Z to a-z); the contents the model
\* draws hold no well-formed multi-byte character, so no other case mapping arises.
to_lowercase(s) == [i \in 1..Len(s) |-> IF s[i] >= 65 /\ s[i] <= 90 THEN s[i] + 32 ELSE s[i]]

\* str::split("."): the pieces between dots; "" splits into one empty piece.
RECURSIVE SplitFrom(_, _, _)
SplitFrom(s, i, cur) ==
    IF i > Len(s) THEN <<cur>>
    ELSE IF s[i] = Dot THEN <<cur>> \o SplitFrom(s, i + 1, <<>>)
    ELSE SplitFrom(s, i + 1, Append(cur, s[i]))

split(s) == SplitFrom(s, 1, <<>>)

\* str::ends_with
ends_with(s, suffix) ==
    /\ Len(suffix) <= Len(s)
    /\ SubSeq(s, Len(s) - Len(suffix) + 1, Len(s)) = suffix

----------------------------------------------------------------------------
(* Domain names on the wire.                                               *)

max_jumps == 5

JumpLimit == "Limit of 5 jumps exceeded"

\* read_qname, line 106: the jump limit, tested at the top of every iteration
jump_limit_exceeded_off_by_one(jumps_performed) == jumps_performed >= max_jumps

jump_limit_exceeded(jumps_performed) == jumps_performed > max_jumps

\* read_qname, lines 116-118: the shared cursor moves past the first pointer only
freeze_cursor_every_jump(b, shared_pos, jumped) == seek(b, shared_pos + 2).b

freeze_cursor(b, shared_pos, jumped) ==
    IF ~jumped THEN seek(b, shared_pos + 2).b ELSE b

\* read_qname, lines 121-122: the 14-bit offset of a pointer
jump_offset(len, second_byte) == BitOr(AsU16(BitXor(len, 192) * 256), second_byte)

\* a read that leaves the cursor where the call found it
final_cursor_unmoved(b, shared_pos, jumped) == b

\* read_qname, lines 150-152: the cursor after the loop
final_cursor(b, shared_pos, jumped) ==
    IF ~jumped THEN seek(b, shared_pos).b ELSE b

\* read_qname, lines 113-129: a pointer at shared_pos, whose first byte is len
follow_pointer(b, shared_pos, len, jumped) ==
    Let(freeze_cursor(b, shared_pos, jumped), LAMBDA b1 :
    Then(get(b1, shared_pos + 1), 0, LAMBDA second_byte :
        Ok(b1, jump_offset(len, second_byte.val))))

\* BytePacketBuffer::read_qname, the loop: one call per iteration.  val is outstr.
RECURSIVE read_qname_loop(_, _, _, _, _, _)
read_qname_loop(b, shared_pos, jumped, jumps_performed, delimiter, outstr) ==
    IF jump_limit_exceeded(jumps_performed) THEN Err(b, JumpLimit, outstr)
    ELSE
    Then(get(b, shared_pos), outstr, LAMBDA len :
        IF BitAnd(len.val, 192) = 192
        THEN Then(follow_pointer(b, shared_pos, len.val, jumped), outstr, LAMBDA offset :
                 read_qname_loop(offset.b, offset.val, TRUE, jumps_performed + 1,
                                 delimiter, outstr))
        ELSE IF len.val = 0
        THEN Ok(final_cursor(b, shared_pos + 1, jumped), outstr)
        ELSE Then(get_range(b, shared_pos + 1, len.val), outstr \o delimiter,
                  LAMBDA buf_slice :
                 IF ~Utf8Valid(buf_slice.val)
                 THEN Panic(b, "bytes are not valid UTF-8", outstr \o delimiter)
                 ELSE read_qname_loop(b, shared_pos + 1 + len.val, jumped,
                                      jumps_performed, <<Dot>>,
                                      outstr \o delimiter \o to_lowercase(buf_slice.val))))

\* BytePacketBuffer::read_qname, appending to outstr
read_qname(b, outstr) == read_qname_loop(b, b.pos, FALSE, 0, <<>>, outstr)

\* BytePacketBuffer::write_qname, one label: its length byte and its bytes
RECURSIVE write_bytes(_, _)
write_bytes(b, bytes) ==
    IF bytes = <<>> THEN Ok(b, 0)
    ELSE Try(write(b, bytes[1]), LAMBDA b1 : write_bytes(b1, Tail(bytes)))

RECURSIVE write_labels(_, _)
write_labels(b, labels) ==
    IF labels = <<>> THEN Ok(b, 0)
    ELSE IF Len(labels[1]) > 63
         THEN Err(b, "Single label exceeds 63 characters of length", 0)
         ELSE Try(write(b, AsU8(Len(labels[1]))), LAMBDA b1 :
              Try(write_bytes(b1, labels[1]), LAMBDA b2 :
                  write_labels(b2, Tail(labels))))

\* BytePacketBuffer::write_qname
write_qname(b, qname) ==
    Try(write_labels(b, split(qname)), LAMBDA b1 : write(b1, 0))

----------------------------------------------------------------------------
(* RecordType (dns_record_type.rs): [kind, num], num kept for UNKNOWN only. *)

RecordType(kind) == [kind |-> kind, num |-> 0]
RecordType_UNKNOWN(num) == [kind |-> "UNKNOWN", num |-> num]

\* RecordType::to_num
to_num(t) ==
    CASE t.kind = "A" -> 1
      [] t.kind = "UNKNOWN" -> t.num
      [] t.kind = "NS" -> 2
      [] t.kind = "CNAME" -> 5
      [] t.kind = "MX" -> 15
      [] t.kind = "AAAA" -> 28

\* RecordType::from_num
from_num(num) ==
    CASE num = 1 -> RecordType("A")
      [] num = 2 -> RecordType("NS")
      [] num = 5 -> RecordType("CNAME")
      [] num = 15 -> RecordType("MX")
      [] num = 28 -> RecordType("AAAA")
      [] OTHER -> RecordType_UNKNOWN(num)

----------------------------------------------------------------------------
(* DnsRecord (dns_record.rs): one record shape for the six variants, the   *)
(* fields a variant does not have left at their empty value.               *)

DnsRecord(variant, domain, host, addr, priority, qtype, data_len, ttl) ==
    [variant |-> variant, domain |-> domain, host |-> host, addr |-> addr,
     priority |-> priority, qtype |-> qtype, data_len |-> data_len, ttl |-> ttl]

DnsRecord_UNKNOWN(domain, qtype, data_len, ttl) ==
    DnsRecord("UNKNOWN", domain, <<>>, <<>>, 0, qtype, data_len, ttl)
DnsRecord_A(domain, addr, ttl) == DnsRecord("A", domain, <<>>, addr, 0, 0, 0, ttl)
DnsRecord_NS(domain, host, ttl) == DnsRecord("NS", domain, host, <<>>, 0, 0, 0, ttl)
DnsRecord_CNAME(domain, host, ttl) == DnsRecord("CNAME", domain, host, <<>>, 0, 0, 0, ttl)
DnsRecord_MX(domain, host, priority, ttl) ==
    DnsRecord("MX", domain, host, <<>>, priority, 0, 0, ttl)
DnsRecord_AAAA(domain, addr, ttl) == DnsRecord("AAAA", domain, <<>>, addr, 0, 0, 0, ttl)

\* what a failed read returns in place of a record
NoRecord == DnsRecord("none", <<>>, <<>>, <<>>, 0, 0, 0, U32(0, 0))

\* Ipv4Addr::new from the four bytes of raw_addr (lines 61-66)
Ipv4FromRaw(raw_addr) ==
    << BitAnd(raw_addr[1] \div 256, 255), BitAnd(raw_addr[1], 255),
       BitAnd(raw_addr[2] \div 256, 255), BitAnd(raw_addr[2], 255) >>

\* lines 115-117: n times read_u16, the values collected in order
RECURSIVE read_segments(_, _, _)
read_segments(b, n, bytes) ==
    IF n = 0 THEN Ok(b, bytes)
    ELSE Then(read_u16(b), bytes, LAMBDA r :
             read_segments(r.b, n - 1, Append(bytes, r.val)))

\* DnsRecord::read, the payload by record type (lines 58-135)
read_payload(b, domain, qtype_num, qtype, ttl, data_len) ==
    CASE qtype.kind = "A" ->
            Then(read_u32(b), NoRecord, LAMBDA raw_addr :
                Ok(raw_addr.b, DnsRecord_A(domain, Ipv4FromRaw(raw_addr.val), ttl)))
      [] qtype.kind = "UNKNOWN" ->
            Then(steps(b, data_len), NoRecord, LAMBDA r :
                Ok(r.b, DnsRecord_UNKNOWN(domain, qtype_num, data_len, ttl)))
      [] qtype.kind = "NS" ->
            Then(read_qname(b, <<>>), NoRecord, LAMBDA host :
                Ok(host.b, DnsRecord_NS(domain, host.val, ttl)))
      [] qtype.kind = "CNAME" ->
            Then(read_qname(b, <<>>), NoRecord, LAMBDA cname :
                Ok(cname.b, DnsRecord_CNAME(domain, cname.val, ttl)))
      [] qtype.kind = "MX" ->
            Then(read_u16(b), NoRecord, LAMBDA priority :
            Then(read_qname(priority.b, <<>>), NoRecord, LAMBDA host :
                Ok(host.b, DnsRecord_MX(domain, host.val, priority.val, ttl))))
      [] qtype.kind = "AAAA" ->
            Then(read_segments(b, 8, <<>>), NoRecord, LAMBDA bytes :
                Ok(bytes.b, DnsRecord_AAAA(domain, bytes.val, ttl)))

\* DnsRecord::read
DnsRecord_read(b) ==
    Then(read_qname(b, <<>>), NoRecord, LAMBDA domain :
    Then(read_u16(domain.b), NoRecord, LAMBDA qtype_num :
    Then(read_u16(qtype_num.b), NoRecord, LAMBDA class :
    Then(read_u32(class.b), NoRecord, LAMBDA ttl :
    Then(read_u16(ttl.b), NoRecord, LAMBDA data_len :
        read_payload(data_len.b, domain.val, qtype_num.val, from_num(qtype_num.val),
                     ttl.val, data_len.val))))))

\* DnsRecord::write, the fields every written variant starts with: the domain,
\* the type code, class 1, the ttl and the data length (lines 144-148 and alike)
write_preamble(b, domain, qtype, ttl, data_len) ==
    Try(write_qname(b, domain), LAMBDA b1 :
    Try(write_u16(b1, to_num(qtype)), LAMBDA b2 :
    Try(write_u16(b2, 1), LAMBDA b3 :
    Try(write_u32(b3, ttl), LAMBDA b4 :
        write_u16(b4, data_len)))))

\* lines 167-169: the eight segments of an Ipv6Addr
RECURSIVE write_segments(_, _)
write_segments(b, segments) ==
    IF segments = <<>> THEN Ok(b, 0)
    ELSE Try(write_u16(b, segments[1]), LAMBDA b1 : write_segments(b1, Tail(segments)))

\* where each variant patches the data length once the payload is written:
\* start_pos is the cursor the record started at, start_position the cursor
\* after the two placeholder bytes of the data length
cname_patch_pos(start_pos, start_position) == start_position - 1    \* line 180
ns_patch_pos(start_pos, start_position) == start_pos - 1            \* line 192
mx_patch_pos(start_pos, start_position) == start_position - 1       \* line 206

\* DnsRecord::write, the variant's bytes (lines 142-208)
write_variant(b, rec, start_pos) ==
    CASE rec.variant = "A" ->
            Try(write_preamble(b, rec.domain, RecordType("A"), rec.ttl, 4), LAMBDA b1 :
                write_bytes(b1, rec.addr))
      [] rec.variant = "UNKNOWN" -> Ok(b, 0)
      [] rec.variant = "AAAA" ->
            Try(write_preamble(b, rec.domain, RecordType("AAAA"), rec.ttl, 16), LAMBDA b1 :
                write_segments(b1, rec.addr))
      [] rec.variant = "CNAME" ->
            Try(write_preamble(b, rec.domain, RecordType("CNAME"), rec.ttl, 0), LAMBDA b1 :
            Try(write_qname(b1, rec.host), LAMBDA b2 :
                set_u16(b2, cname_patch_pos(start_pos, b1.pos), AsU16(b2.pos - b1.pos))))
      [] rec.variant = "NS" ->
            Try(write_preamble(b, rec.domain, RecordType("NS"), rec.ttl, 0), LAMBDA b1 :
            Try(write_qname(b1, rec.host), LAMBDA b2 :
                set_u16(b2, ns_patch_pos(start_pos, b1.pos), AsU16(b2.pos - b1.pos))))
      [] rec.variant = "MX" ->
            Try(write_preamble(b, rec.domain, RecordType("MX"), rec.ttl, 0), LAMBDA b1 :
            Try(write_u16(b1, rec.priority), LAMBDA b2 :
            Try(write_qname(b2, rec.host), LAMBDA b3 :
                set_u16(b3, mx_patch_pos(start_pos, b1.pos), AsU16(b3.pos - b1.pos)))))

\* DnsRecord::write: val is the number of bytes the cursor moved
DnsRecord_write(b, rec) ==
    Then(write_variant(b, rec, b.pos), 0, LAMBDA r : Ok(r.b, r.b.pos - b.pos))

----------------------------------------------------------------------------
(* ResultCode (dns_header/dns_res_code.rs, which is not among the sources): *)
(* the response codes the specification names, numbered as in RFC 1035.    *)

ResultCodes == {"NOERROR", "FORMERR", "SERVFAIL", "NXDOMAIN", "NOTIMP", "REFUSED"}

\* `rescode as u8`
ResultCode_to_num(rescode) ==
    CASE rescode = "NOERROR" -> 0
      [] rescode = "FORMERR" -> 1
      [] rescode = "SERVFAIL" -> 2
      [] rescode = "NXDOMAIN" -> 3
      [] rescode = "NOTIMP" -> 4
      [] rescode = "REFUSED" -> 5

\* ResultCode::from_num: a number that names no code reads as NOERROR
ResultCode_from_num(num) ==
    CASE num = 1 -> "FORMERR"
      [] num = 2 -> "SERVFAIL"
      [] num = 3 -> "NXDOMAIN"
      [] num = 4 -> "NOTIMP"
      [] num = 5 -> "REFUSED"
      [] OTHER -> "NOERROR"

----------------------------------------------------------------------------
(* DnsHeader (dns_header.rs)                                               *)

\* DnsHeader::new
DnsHeader_new ==
    [id |-> 0,
     recursion_desired |-> FALSE, truncated_message |-> FALSE,
     authoritative_answer |-> FALSE, opcode |-> 0, response |-> FALSE,
     rescode |-> "NOERROR", checking_disabled |-> FALSE, authed_data |-> FALSE,
     z |-> FALSE, recursion_available |-> FALSE,
     questions |-> 0, answers |-> 0, authoritative_entries |-> 0, resource_entries |-> 0]

\* `flag as u8`
BoolAsU8(flag) == IF flag THEN 1 ELSE 0

\* DnsHeader::read, lines 56-60: the fields of the first flags byte
read_first_flags(self, first_flags) ==
    [self EXCEPT !.response = (BitAnd(first_flags, 128) = 128),
                 !.opcode = BitAnd(first_flags, 120) \div 8,
                 !.authoritative_answer = (BitAnd(first_flags, 4) = 4),
                 !.truncated_message = (BitAnd(first_flags, 2) = 2),
                 !.recursion_desired = (BitAnd(first_flags, 1) = 1)]

\* DnsHeader::read, lines 63-67: the fields of the second flags byte
read_second_flags(self, second_flags) ==
    [self EXCEPT !.recursion_available = (BitAnd(second_flags, 128) = 128),
                 !.z = (BitAnd(second_flags, 64) > 0),
                 !.checking_disabled = (BitAnd(second_flags, 16) > 0),
                 !.authed_data = (BitAnd(second_flags, 32) > 0),
                 !.rescode = ResultCode_from_num(BitAnd(second_flags, 15))]

\* DnsHeader::read: val is the header as the call left it
DnsHeader_read(self, b) ==
    Then(read_u16(b), self, LAMBDA id :
    Let([self EXCEPT !.id = id.val], LAMBDA s1 :
    Then(read(id.b), s1, LAMBDA first_flags :
    Let(read_first_flags(s1, first_flags.val), LAMBDA s2 :
    Then(read(first_flags.b), s2, LAMBDA second_flags :
    Let(read_second_flags(s2, second_flags.val), LAMBDA s3 :
    Then(read_u16(second_flags.b), s3, LAMBDA questions :
    Let([s3 EXCEPT !.questions = questions.val], LAMBDA s4 :
    Then(read_u16(questions.b), s4, LAMBDA answers :
    Let([s4 EXCEPT !.answers = answers.val], LAMBDA s5 :
    Then(read_u16(answers.b), s5, LAMBDA authoritative_entries :
    Let([s5 EXCEPT !.authoritative_entries = authoritative_entries.val], LAMBDA s6 :
    Then(read_u16(authoritative_entries.b), s6, LAMBDA resource_entries :
        Ok(resource_entries.b,
           [s6 EXCEPT !.resource_entries = resource_entries.val]))))))))))))))

\* a first flags byte with the opcode one bit too high (<< 4 for << 3)
first_flags_of_opcode_shifted_4(self) ==
    BitOr(BitOr(BitOr(BitOr(AsU8(BoolAsU8(self.response) * 128),
                            AsU8(self.opcode * 16)),
                      AsU8(BoolAsU8(self.authoritative_answer) * 4)),
                AsU8(BoolAsU8(self.truncated_message) * 2)),
          BoolAsU8(self.recursion_desired))

\* DnsHeader::write, lines 79-83
first_flags_of(self) ==
    BitOr(BitOr(BitOr(BitOr(AsU8(BoolAsU8(self.response) * 128),
                            AsU8(self.opcode * 8)),
                      AsU8(BoolAsU8(self.authoritative_answer) * 4)),
                AsU8(BoolAsU8(self.truncated_message) * 2)),
          BoolAsU8(self.recursion_desired))

\* a second flags byte with checking_disabled and authed_data in each other's bit
second_flags_of_ad_cd_swapped(self) ==
    BitOr(BitOr(BitOr(BitOr(ResultCode_to_num(self.rescode),
                            AsU8(BoolAsU8(self.checking_disabled) * 32)),
                      AsU8(BoolAsU8(self.authed_data) * 16)),
                AsU8(BoolAsU8(self.z) * 64)),
          AsU8(BoolAsU8(self.recursion_available) * 128))

\* DnsHeader::write, lines 84-88
second_flags_of(self) ==
    BitOr(BitOr(BitOr(BitOr(ResultCode_to_num(self.rescode),
                            AsU8(BoolAsU8(self.checking_disabled) * 16)),
                      AsU8(BoolAsU8(self.authed_data) * 32)),
                AsU8(BoolAsU8(self.z) * 64)),
          AsU8(BoolAsU8(self.recursion_available) * 128))

\* DnsHeader::write
DnsHeader_write(self, b) ==
    Try(write_u16(b, self.id), LAMBDA b1 :
    Try(write(b1, first_flags_of(self)), LAMBDA b2 :
    Try(write(b2, second_flags_of(self)), LAMBDA b3 :
    Try(write_u16(b3, self.questions), LAMBDA b4 :
    Try(write_u16(b4, self.answers), LAMBDA b5 :
    Try(write_u16(b5, self.authoritative_entries), LAMBDA b6 :
        write_u16(b6, self.resource_entries)))))))

----------------------------------------------------------------------------
(* DnsQuestions (dns_questions.rs)                                         *)

\* DnsQuestions::new
DnsQuestions_new(name, qtype) == [name |-> name, qtype |-> qtype]

\* DnsQuestions::read: the result of the class read is dropped (`let _ =`),
\* so a class that cannot be read leaves the cursor where it was and is no error
DnsQuestions_read(self, b) ==
    Then(read_qname(b, self.name), self, LAMBDA name :
    Then(read_u16(name.b), [self EXCEPT !.name = name.val], LAMBDA qtype :
    Let(read_u16(qtype.b), LAMBDA class :
        Ok(class.b, [name |-> name.val, qtype |-> from_num(qtype.val)]))))

\* DnsQuestions::write
DnsQuestions_write(self, b) ==
    Try(write_qname(b, self.name), LAMBDA b1 :
    Try(write_u16(b1, to_num(self.qtype)), LAMBDA b2 :
        write_u16(b2, 1)))

----------------------------------------------------------------------------
(* DnsPacket (dns_packet.rs)                                               *)

\* DnsPacket::new
DnsPacket_new ==
    [header |-> DnsHeader_new, questions |-> <<>>, answers |-> <<>>,
     authorities |-> <<>>, resources |-> <<>>]

\* from_buffer, lines 37-41: n questions, pushed in the order read
RECURSIVE read_questions(_, _, _)
read_questions(b, n, questions) ==
    IF n = 0 THEN Ok(b, questions)
    ELSE Then(DnsQuestions_read(DnsQuestions_new(<<>>, RecordType_UNKNOWN(0)), b),
              questions, LAMBDA question :
             read_questions(question.b, n - 1, Append(questions, question.val)))

\* from_buffer, lines 43-56: n records, pushed in the order read
RECURSIVE read_records(_, _, _)
read_records(b, n, records) ==
    IF n = 0 THEN Ok(b, records)
    ELSE Then(DnsRecord_read(b), records, LAMBDA record :
             read_records(record.b, n - 1, Append(records, record.val)))

\* DnsPacket::from_buffer
DnsPacket_from_buffer(b) ==
    Then(DnsHeader_read(DnsHeader_new, b), DnsPacket_new, LAMBDA header :
    Then(read_questions(header.b, header.val.questions, <<>>), DnsPacket_new,
         LAMBDA questions :
    Then(read_records(questions.b, header.val.answers, <<>>), DnsPacket_new,
         LAMBDA answers :
    Then(read_records(answers.b, header.val.authoritative_entries, <<>>), DnsPacket_new,
         LAMBDA authorities :
    Then(read_records(authorities.b, header.val.resource_entries, <<>>), DnsPacket_new,
         LAMBDA resources :
        Ok(resources.b, [header |-> header.val, questions |-> questions.val,
                         answers |-> answers.val, authorities |-> authorities.val,
                         resources |-> resources.val]))))))

\* DnsPacket::write, lines 62-65: the four counts taken from the lists
derive_counts(self) ==
    [self EXCEPT !.header.questions = AsU16(Len(self.questions)),
                 !.header.answers = AsU16(Len(self.answers)),
                 !.header.authoritative_entries = AsU16(Len(self.authorities)),
                 !.header.resource_entries = AsU16(Len(self.resources))]

\* lines 69-71
RECURSIVE write_questions(_, _)
write_questions(b, questions) ==
    IF questions = <<>> THEN Ok(b, 0)
    ELSE Try(DnsQuestions_write(questions[1], b), LAMBDA b1 :
             write_questions(b1, Tail(questions)))

\* lines 72-80
RECURSIVE write_records(_, _)
write_records(b, records) ==
    IF records = <<>> THEN Ok(b, 0)
    ELSE Try(DnsRecord_write(b, records[1]), LAMBDA b1 :
             write_records(b1, Tail(records)))

\* DnsPacket::write: val is the packet as the call left it (its counts derived)
DnsPacket_write(self, b) ==
    Let(derive_counts(self), LAMBDA s1 :
        Fail(Try(DnsHeader_write(s1.header, b), LAMBDA b1 :
             Try(write_questions(b1, s1.questions), LAMBDA b2 :
             Try(write_records(b2, s1.answers), LAMBDA b3 :
             Try(write_records(b3, s1.authorities), LAMBDA b4 :
                 write_records(b4, s1.resources))))), s1))

----------------------------------------------------------------------------
(* The buffer under test: how an operation's result becomes the next state. *)

Cur == [buf |-> buf, pos |-> pos]

ServiceIdle ==
    /\ svc = "idle"
    /\ request = [id |-> 0, question |-> <<>>]
    /\ stack = <<>>
    /\ queries = <<>>
    /\ replies = <<>>
    /\ handled = 0

serviceVars == <<svc, request, stack, queries, replies, handled>>

Apply(name, arg, r) ==
    /\ buf' = r.b.buf
    /\ pos' = r.b.pos
    /\ last' = [op |-> name, arg |-> arg, pos0 |-> pos,
                st |-> r.st, msg |-> r.msg, val |-> r.val]
    /\ nops' = nops + 1
    /\ UNCHANGED serviceVars

NoOp == [op |-> "none", arg |-> 0, pos0 |-> 0, st |-> "Ok", msg |-> "", val |-> 0]

----------------------------------------------------------------------------
(* Wire contents the checks draw from (RFC 1035 encodings, built by hand). *)

\* a buffer holding fill in every byte
Filled(fill) == [i \in 1..BufLen |-> fill]

\* f with bytes laid at offset off
Patch(f, off, bytes) ==
    [i \in 1..BufLen |->
        IF i - 1 >= off /\ i - 1 < off + Len(bytes) THEN bytes[i - off] ELSE f[i]]

\* a compression pointer to offset off
Pointer(off) == <<192 + (off \div 256), off % 256>>

\* labels in label form, without the terminating zero
RECURSIVE WireLabels(_)
WireLabels(labels) ==
    IF labels = <<>> THEN <<>>
    ELSE <<Len(labels[1])>> \o labels[1] \o WireLabels(Tail(labels))

WireName(labels) == WireLabels(labels) \o <<0>>

\* labels joined with dots
RECURSIVE Join(_)
Join(labels) ==
    IF labels = <<>> THEN <<>>
    ELSE IF Len(labels) = 1 THEN labels[1]
    ELSE labels[1] \o <<Dot>> \o Join(Tail(labels))

----------------------------------------------------------------------------
(* Names reached through chains of compression pointers.                   *)

MaxChain == 7

\* where the contents below put the name, the pointers and the prefixed name
Layout == [name |-> 300, ptr |-> 64, prefixed |-> 128]

PtrAt(i) == Layout.ptr + 4 * (i - 1)

\* pointer i points at pointer i-1, pointer 1 at the name
TargetOf(i) == IF i = 1 THEN Layout.name ELSE PtrAt(i - 1)

RECURSIVE WithPointers(_, _)
WithPointers(f, k) ==
    IF k = 0 THEN f
    ELSE WithPointers(Patch(f, PtrAt(k), Pointer(TargetOf(k))), k - 1)

\* the names on the wire (upper case included) and the strings they stand for
WireNames ==
    { [labels |-> <<<<65, 98>>, <<99>>>>, str |-> <<97, 98, Dot, 99>>],
      [labels |-> <<<<97>>>>,             str |-> <<97>>],
      [labels |-> <<>>,                   str |-> <<>>] }

Www == <<119, 119, 119>>

\* a chain of k pointers ending in name n, every other byte being fill; read
\* from the last pointer of the chain (from the name itself when k = 0)
ChainCase(k, n, fill) ==
    [kind   |-> "chain",
     buf    |-> WithPointers(Patch(Filled(fill), Layout.name,
                                   WireName(n.labels)), k),
     start  |-> IF k = 0 THEN Layout.name ELSE PtrAt(k),
     chain  |-> k,
     ptr    |-> IF k = 0 THEN -1 ELSE PtrAt(k),
     target |-> IF k = 0 THEN -1 ELSE TargetOf(k),
     prefix |-> <<>>,
     name   |-> n.str]

\* the label "www" followed by a pointer that heads a chain of k >= 1 pointers
PrefixedCase(k, n, fill) ==
    [kind   |-> "chain",
     buf    |-> Patch(WithPointers(Patch(Filled(fill), Layout.name,
                                         WireName(n.labels)), k - 1),
                      Layout.prefixed, WireLabels(<<Www>>) \o Pointer(TargetOf(k))),
     start  |-> Layout.prefixed,
     chain  |-> k,
     ptr    |-> Layout.prefixed + 4,
     target |-> TargetOf(k),
     prefix |-> Www,
     name   |-> IF n.str = <<>> THEN Www ELSE Www \o <<Dot>> \o n.str]

\* pointers that loop or leave the buffer, and a label that runs off its end
EdgeCase(start, off, bytes) ==
    [kind   |-> "edge",
     buf    |-> Patch(Filled(0), off, bytes),
     start  |-> start,
     chain  |-> -1,
     ptr    |-> -1,
     target |-> -1,
     prefix |-> <<>>,
     name   |-> <<>>]

QnameCases ==
    {ChainCase(k, n, fill) : k \in 0..MaxChain, n \in WireNames, fill \in {0, 7}}
    \cup {PrefixedCase(k, n, fill) : k \in 1..MaxChain, n \in WireNames, fill \in {0, 7}}
    \cup { EdgeCase(200, 200, Pointer(200)),                     \* points at itself
           EdgeCase(200, 200, Pointer(202) \o Pointer(200)),     \* a cycle of two
           EdgeCase(511, 511, <<192>>),                          \* pointer cut by the end
           EdgeCase(510, 510, Pointer(512)),                     \* points past the end
           EdgeCase(508, 508, <<5, 97, 97, 97>>),                \* label runs off the end
           EdgeCase(509, 509, <<1, 97, 0>>),                     \* name ends the buffer
           EdgeCase(200, 200, <<1, 255, 0>>),                    \* label is not UTF-8
           EdgeCase(600, 0, <<>>) }                              \* cursor past the end

CaseInfo(c) == [kind |-> c.kind, start |-> c.start, chain |-> c.chain, ptr |-> c.ptr,
                target |-> c.target, prefix |-> c.prefix, name |-> c.name]

InitQname ==
    /\ \E c \in QnameCases :
          /\ buf = c.buf
          /\ pos = c.start
          /\ input = CaseInfo(c)
    /\ pc = "start"
    /\ last = NoOp
    /\ nops = 0
    /\ ServiceIdle

\* read_qname at the cursor, into an empty string
ReadQname ==
    /\ pc = "start"
    /\ pc' = "done"
    /\ Apply("read_qname", 0, read_qname(Cur, <<>>))
    /\ UNCHANGED input

NextQname == ReadQname

SpecQname == InitQname /\ [][NextQname]_vars

\* The name read_qname decodes when started at offset off.
NameAt(off) == read_qname([buf |-> buf, pos |-> off], <<>>)

\* C3: when read_qname succeeds on a name that holds a compression pointer, the
\* string is the labels before the pointer followed by the name the pointer refers
\* to (that name itself when the pointer comes first), and the cursor ends 2 bytes
\* past the first pointer, however many further pointers were followed.
QnamePointerDecodesTarget ==
    (pc = "done" /\ input.kind = "chain" /\ input.ptr >= 0 /\ last.st = "Ok") =>
        /\ pos = input.ptr + 2
        /\ NameAt(input.target).st = "Ok"
        /\ LET t == NameAt(input.target).val IN
           last.val = IF input.prefix = <<>> THEN t
                      ELSE IF t = <<>> THEN input.prefix
                      ELSE input.prefix \o <<Dot>> \o t
        /\ last.val = input.name

QnamePointerWitness ==
    /\ pc = "done"
    /\ input.kind = "chain"
    /\ input.chain = 3
    /\ input.prefix = <<>>
    /\ last.st = "Ok"
    /\ last.val = <<97, 98, Dot, 99>>
    /\ pos = input.ptr + 2

\* C4: a chain of exactly 6 pointers fails with the jump-limit error; a chain of
\* exactly 5 pointers ending in a well-formed name decodes that name.
JumpLimitSixFailsFiveSucceeds ==
    (pc = "done" /\ input.kind = "chain") =>
        /\ (input.chain = 6 => last.st = "Err" /\ last.msg = JumpLimit)
        /\ (input.chain = 5 => last.st = "Ok" /\ last.val = input.name)

JumpLimitWitness ==
    /\ pc = "done"
    /\ input.kind = "chain"
    /\ input.chain = 6
    /\ last.st = "Err"
    /\ last.msg = JumpLimit

----------------------------------------------------------------------------
(* A record written at a cursor, the cursor moved back, the record read.   *)

\* lower-case names of labels of 1..63 bytes
Names == { <<97>>, <<97, 98, Dot, 99>> }
Hosts == { <<98>>, <<110, 115, Dot, 97>> }
Ttls == { U32(0, 0), U32(0, 3600), U32(65535, 65535) }
Priorities == { 0, 10, 65535 }
Ipv4s == { <<127, 0, 0, 1>>, <<255, 255, 255, 255>> }
Ipv6s == { <<0, 0, 0, 0, 0, 0, 0, 1>>,
           <<65535, 65535, 65535, 65535, 65535, 65535, 65535, 65535>> }

KnownRecords ==
    {DnsRecord_A(d, a, t) : d \in Names, a \in Ipv4s, t \in Ttls}
    \cup {DnsRecord_AAAA(d, a, t) : d \in Names, a \in Ipv6s, t \in Ttls}
    \cup {DnsRecord_NS(d, h, t) : d \in Names, h \in Hosts, t \in Ttls}
    \cup {DnsRecord_CNAME(d, h, t) : d \in Names, h \in Hosts, t \in Ttls}
    \cup UNION {{DnsRecord_MX(d, h, p, t) : d \in Names, h \in Hosts, t \in Ttls} :
                p \in Priorities}

UnknownRecords == {DnsRecord_UNKNOWN(d, 16, 3, U32(0, 3600)) : d \in Names}

\* cursors a record is written at: a fresh buffer, past a header, further on,
\* and too close to the end for any record to fit
RecordStarts == {0, 12, 100, 506}

\* the buffer a record is written into: the bytes below the cursor were written
\* before (each holds fill), the rest is as BytePacketBuffer::new left it
WrittenUpTo(start, fill) == [i \in 1..BufLen |-> IF i - 1 < start THEN fill ELSE 0]

InitRecord ==
    /\ \E rec \in KnownRecords \cup UnknownRecords, start \in RecordStarts :
          /\ buf = WrittenUpTo(start, 1)
          /\ pos = start
          /\ input = [rec |-> rec, start |-> start]
    /\ pc = "start"
    /\ last = NoOp
    /\ nops = 0
    /\ ServiceIdle

\* DnsRecord::write of the record at the cursor
RecordWrite ==
    /\ pc = "start"
    /\ pc' = "written"
    /\ Apply("DnsRecord::write", input.rec, DnsRecord_write(Cur, input.rec))
    /\ UNCHANGED input

\* BytePacketBuffer::seek back to where the write started
SeekBack ==
    /\ pc = "written"
    /\ last.st = "Ok"
    /\ pc' = "rewound"
    /\ Apply("seek", input.start, seek(Cur, input.start))
    /\ UNCHANGED input

\* DnsRecord::read at the cursor
RecordRead ==
    /\ pc = "rewound"
    /\ pc' = "read"
    /\ Apply("DnsRecord::read", 0, DnsRecord_read(Cur))
    /\ UNCHANGED input

NextRecord == RecordWrite \/ SeekBack \/ RecordRead

SpecRecord == InitRecord /\ [][NextRecord]_vars

KnownVariants == {"A", "NS", "CNAME", "MX", "AAAA"}

\* C1: a record of variant A, NS, CNAME, MX or AAAA with valid fields, written
\* with enough room and read back from where the write started, is read
\* successfully and equal to the record written.
RecordRoundTrip ==
    (pc = "read" /\ input.rec.variant \in KnownVariants) =>
        (last.st = "Ok" /\ last.val = input.rec)

\* the 16-bit big-endian value at offset p of the buffer
U16At(p) == buf[p + 1] * 256 + buf[p + 2]

\* where the payload of the record just written starts: past the domain in
\* label form (its bytes, one length byte for the first label, the final zero),
\* type, class, ttl and data length
PayloadStart == input.start + Len(input.rec.domain) + 2 + 10

\* C2: after DnsRecord::write of an NS, CNAME or MX record the two bytes before
\* the payload hold the number of payload bytes written: the encoded host name,
\* and 2 more for MX.
DataLengthPatched ==
    (pc = "written" /\ last.st = "Ok" /\ input.rec.variant \in {"NS", "CNAME", "MX"}) =>
        /\ U16At(PayloadStart - 2) = pos - PayloadStart
        /\ U16At(PayloadStart - 2) =
              Len(input.rec.host) + 2 + (IF input.rec.variant = "MX" THEN 2 ELSE 0)

----------------------------------------------------------------------------
(* Any sequence of buffer operations and decodes on a received content.    *)

MaxOps == 2

\* a resource record of a type the codec does not know, declaring data_len
\* bytes of data (RFC 1035 layout: name, type, class, ttl, rdlength)
WireUnknownRecord(data_len) ==
    WireName(<<<<97, 98>>>>) \o <<0, 3>> \o <<0, 1>> \o <<0, 0, 0, 0>>
        \o <<data_len \div 256, data_len % 256>>

\* a 12-byte header holding the four counts, every flag clear
WireHeader(id, qd, an, ns, ar) ==
    <<id \div 256, id % 256, 0, 0, 0, qd, 0, an, 0, ns, 0, ar>>

\* a message of 512 bytes with one question whose name ends at byte 508: the
\* type is bytes 509..510 and only the first byte of the class is in the buffer
LongLabel == [i \in 1..61 |-> 97]
WireClassCutOff ==
    WireHeader(7, 1, 0, 0, 0) \o WireName([i \in 1..8 |-> LongLabel]) \o <<0, 1>> \o <<0>>

\* the contents operations are applied to, each read from cursor 0; the last
\* three are followed by pointers, so that a decode which takes the bytes
\* after them for names ends at the first of these
Contents ==
    { Filled(0),
      Patch(Filled(0), 0, WireClassCutOff),
      Patch(Filled(0), 511, <<192>>),
      Patch(Filled(192), 0, WireUnknownRecord(600)),
      Patch(Filled(192), 0, WireHeader(7, 0, 1, 0, 0) \o WireUnknownRecord(65535)),
      Patch(Filled(192), 0, WireHeader(7, 1, 0, 0, 0) \o Pointer(12)) }

Bytes == {0, 192}
Words == {258}
Longs == {U32(65535, 65535)}
Steps == {1, 511}
Seeks == {0, 508, 509, 510, 511, 512, 600}

InitBuffer ==
    /\ buf \in Contents
    /\ pos = 0
    /\ pc = "ops"
    /\ input = 0
    /\ last = NoOp
    /\ nops = 0
    /\ ServiceIdle

Op(name, arg, r) ==
    /\ pc = "ops"
    /\ nops < MaxOps
    /\ Apply(name, arg, r)
    /\ UNCHANGED <<pc, input>>

OpRead == Op("read", 0, read(Cur))
OpReadU16 == Op("read_u16", 0, read_u16(Cur))
OpReadU32 == Op("read_u32", 0, read_u32(Cur))
OpWrite == \E val \in Bytes : Op("write", val, write(Cur, val))
OpWriteU16 == \E val \in Words : Op("write_u16", val, write_u16(Cur, val))
OpWriteU32 == \E val \in Longs : Op("write_u32", val, write_u32(Cur, val))
OpSteps == \E n \in Steps : Op("steps", n, steps(Cur, n))
OpSeek == \E p \in Seeks : Op("seek", p, seek(Cur, p))
OpReadQname == Op("read_qname", 0, read_qname(Cur, <<>>))
OpRecordRead == Op("DnsRecord::read", 0, DnsRecord_read(Cur))
OpFromBuffer == Op("DnsPacket::from_buffer", 0, DnsPacket_from_buffer(Cur))

Next ==
    \/ OpRead \/ OpReadU16 \/ OpReadU32
    \/ OpWrite \/ OpWriteU16 \/ OpWriteU32
    \/ OpSteps \/ OpSeek
    \/ OpReadQname \/ OpRecordRead \/ OpFromBuffer

Spec == InitBuffer /\ [][Next]_vars

\* C5: in every state reached by buffer operations and record or packet decodes
\* the cursor is within 0..512; an operation that would take it past 512 fails.
CursorWithinCapacity == pos >= 0 /\ pos <= BufLen

----------------------------------------------------------------------------
(* A packet written into a fresh buffer and decoded by its receiver.       *)

Question1 == DnsQuestions_new(<<97>>, RecordType("A"))
RecA == DnsRecord_A(<<97>>, <<127, 0, 0, 1>>, U32(0, 3600))
RecNS == DnsRecord_NS(<<97>>, <<98>>, U32(0, 3600))
RecMX == DnsRecord_MX(<<97>>, <<98>>, 10, U32(0, 3600))
RecUnknown == DnsRecord_UNKNOWN(<<97>>, 16, 3, U32(0, 3600))

QuestionLists == { <<>>, <<Question1>> }
AnswerLists ==
    { <<>>, <<RecA>>, <<RecA, RecA>>, <<RecNS, RecA>>, <<RecA, RecNS>>, <<RecMX>>,
      <<RecUnknown>>, <<RecA, RecUnknown, RecA, RecA>> }
AuthorityLists == { <<>>, <<RecNS>> }
ResourceLists == { <<>>, <<RecA>> }

\* what the four count fields of the header hold before the packet is written
PriorCounts == {0, 5}

PacketOf(qs, an, ns, ar, c) ==
    [header |-> [DnsHeader_new EXCEPT !.id = 7, !.questions = c, !.answers = c,
                                      !.authoritative_entries = c,
                                      !.resource_entries = c],
     questions |-> qs, answers |-> an, authorities |-> ns, resources |-> ar]

Packets ==
    UNION { {PacketOf(qs, an, ns, ar, c) : qs \in QuestionLists, an \in AnswerLists} :
            <<ns, ar, c>> \in AuthorityLists \X ResourceLists \X PriorCounts }

InitPacket ==
    /\ buf = NewBuffer.buf
    /\ pos = NewBuffer.pos
    /\ input \in Packets
    /\ pc = "start"
    /\ last = NoOp
    /\ nops = 0
    /\ ServiceIdle

\* DnsPacket::write into the fresh buffer
PacketWrite ==
    /\ pc = "start"
    /\ pc' = "written"
    /\ Apply("DnsPacket::write", 0, DnsPacket_write(input, Cur))
    /\ UNCHANGED input

\* the datagram buf[0..pos] received into a fresh buffer and decoded
PacketReceive ==
    /\ pc = "written"
    /\ last.st = "Ok"
    /\ pc' = "received"
    /\ Apply("DnsPacket::from_buffer", pos,
             DnsPacket_from_buffer([buf |-> Patch(NewBuffer.buf, 0, SubSeq(buf, 1, pos)),
                                    pos |-> 0]))
    /\ UNCHANGED input

NextPacket == PacketWrite \/ PacketReceive

SpecPacket == InitPacket /\ [][NextPacket]_vars

\* C6: the header counts DnsPacket::write leaves in the buffer are the lengths of
\* the four lists, whatever the header's count fields held before the call.
CountsAreListLengths ==
    (pc = "written" /\ last.st = "Ok") =>
        /\ U16At(4) = Len(input.questions)
        /\ U16At(6) = Len(input.answers)
        /\ U16At(8) = Len(input.authorities)
        /\ U16At(10) = Len(input.resources)

\* the bytes a question and a record take in label form (RFC 1035); an UNKNOWN
\* record is not serialized
QuestionSize(q) == Len(q.name) + 2 + 4
RecordSize(r) ==
    CASE r.variant = "UNKNOWN" -> 0
      [] r.variant = "A" -> Len(r.domain) + 2 + 10 + 4
      [] r.variant = "AAAA" -> Len(r.domain) + 2 + 10 + 16
      [] r.variant = "MX" -> Len(r.domain) + 2 + 10 + 2 + Len(r.host) + 2
      [] OTHER -> Len(r.domain) + 2 + 10 + Len(r.host) + 2

RECURSIVE SumOver(_, _)
SumOver(Size(_), list) ==
    IF list = <<>> THEN 0 ELSE Size(list[1]) + SumOver(Size, Tail(list))

Known(list) == SelectSeq(list, LAMBDA r : r.variant # "UNKNOWN")

MixesUnknownAndKnown(list) == Known(list) # <<>> /\ Len(Known(list)) < Len(list)

\* C7: when the answer list mixes UNKNOWN and known records, the output holds
\* the known records only and the answer count in the written header is the
\* number of answer records serialized.
AnswerCountIsSerializedCount ==
    (pc = "written" /\ last.st = "Ok" /\ MixesUnknownAndKnown(input.answers)) =>
        /\ pos = 12 + SumOver(QuestionSize, input.questions)
                    + SumOver(RecordSize, input.answers)
                    + SumOver(RecordSize, input.authorities)
                    + SumOver(RecordSize, input.resources)
        /\ U16At(6) = Len(Known(input.answers))

----------------------------------------------------------------------------
(* A header written, the cursor moved back, and the header read again.     *)

FlagFields ==
    {"response", "authoritative_answer", "truncated_message", "recursion_desired",
     "recursion_available", "z", "checking_disabled", "authed_data"}

Opcodes == 0..15

\* DnsHeader::new with the fields in `raised` set
HeaderOf(raised, opcode, rescode, id, counts) ==
    [id |-> id,
     recursion_desired |-> "recursion_desired" \in raised,
     truncated_message |-> "truncated_message" \in raised,
     authoritative_answer |-> "authoritative_answer" \in raised,
     opcode |-> opcode,
     response |-> "response" \in raised,
     rescode |-> rescode,
     checking_disabled |-> "checking_disabled" \in raised,
     authed_data |-> "authed_data" \in raised,
     z |-> "z" \in raised,
     recursion_available |-> "recursion_available" \in raised,
     questions |-> counts[1], answers |-> counts[2],
     authoritative_entries |-> counts[3], resource_entries |-> counts[4]]

HeaderIds == {0, 4660, 65535}
HeaderCounts == { <<0, 0, 0, 0>>, <<1, 258, 0, 65535>> }
HeaderStarts == {0, 500, 506}

\* every combination of the flags with every opcode and result code, and the
\* wide fields and the start position varied around a few of them
Headers ==
    {HeaderOf(raised, opcode, rescode, 4660, <<1, 258, 0, 65535>>) :
        raised \in SUBSET FlagFields, <<opcode, rescode>> \in Opcodes \X ResultCodes}

WideHeaders ==
    {HeaderOf(raised, 5, "NXDOMAIN", id, counts) :
        raised \in {{}, FlagFields}, <<id, counts>> \in HeaderIds \X HeaderCounts}

InitHeader ==
    /\ \/ input \in [header : Headers, start : {0}, fill : {0}]
       \/ input \in [header : WideHeaders, start : HeaderStarts, fill : {0, 255}]
    /\ buf = Filled(input.fill)
    /\ pos = input.start
    /\ pc = "start"
    /\ last = NoOp
    /\ nops = 0
    /\ ServiceIdle

HeaderWrite ==
    /\ pc = "start"
    /\ pc' = "written"
    /\ Apply("DnsHeader::write", input.start, DnsHeader_write(input.header, Cur))
    /\ UNCHANGED input

HeaderRead ==
    /\ pc = "rewound"
    /\ pc' = "read"
    /\ Apply("DnsHeader::read", input.start, DnsHeader_read(DnsHeader_new, Cur))
    /\ UNCHANGED input

NextHeader == HeaderWrite \/ SeekBack \/ HeaderRead

SpecHeader == InitHeader /\ [][NextHeader]_vars

\* C8: a header written and read back is the header that was written, in every
\* field: each flag, the opcode (0..15), the result code, the id and the counts.
\* Two headers that differ in one field therefore read back differing in that
\* field alone.
HeaderRoundTrip ==
    (pc = "read" /\ last.op = "DnsHeader::read") =>
        /\ last.st = "Ok"
        /\ last.val = input.header
        /\ pos = input.start + 12

\* a header with a single flag raised, opcode 15 and REFUSED has been read back
HeaderRoundTripWitness ==
    /\ pc = "read"
    /\ last.op = "DnsHeader::read"
    /\ last.st = "Ok"
    /\ input.header = HeaderOf({"z"}, 15, "REFUSED", 4660, <<1, 258, 0, 65535>>)
    /\ last.val.z
    /\ ~last.val.checking_disabled
    /\ last.val.opcode = 15

----------------------------------------------------------------------------
(* DnsPacket: the name-server helpers (dns_packet.rs, lines 86-144)        *)

\* Option<T>
None == <<>>
Some(v) == <<v>>

\* Iterator::next of a sequence, mapped through F
First(list, F(_)) == IF list = <<>> THEN None ELSE Some(F(list[1]))

\* DnsPacket::get_random_a: the address of the first A record of the answers
get_random_a(self) ==
    First(SelectSeq(self.answers, LAMBDA r : r.variant = "A"), LAMBDA r : r.addr)

\* DnsPacket::get_ns: the NS records of the authorities whose domain ends qname
get_ns(self, qname) ==
    SelectSeq(self.authorities,
              LAMBDA r : r.variant = "NS" /\ ends_with(qname, r.domain))

\* get_resolved_ns, lines 119-128: per server, in order, the A records of the
\* additional section whose domain is the server's host
RECURSIVE glue_of(_, _)
glue_of(self, servers) ==
    IF servers = <<>> THEN <<>>
    ELSE SelectSeq(self.resources,
                   LAMBDA r : r.variant = "A" /\ r.domain = servers[1].host)
             \o glue_of(self, Tail(servers))

\* a lookup of glue that finds none
get_resolved_ns_none(self, qname) == None

\* a lookup of glue that asks for the first matching name server only
get_resolved_ns_first_server(self, qname) ==
    First(glue_of(self, SubSeq(get_ns(self, qname), 1, 1)), LAMBDA r : r.addr)

\* DnsPacket::get_resolved_ns
get_resolved_ns(self, qname) ==
    First(glue_of(self, get_ns(self, qname)), LAMBDA r : r.addr)

\* a lookup of a name-server host that finds none
get_unresolved_ns_none(self, qname) == None

\* DnsPacket::get_unresolved_ns
get_unresolved_ns(self, qname) ==
    First(get_ns(self, qname), LAMBDA r : r.host)

----------------------------------------------------------------------------
(* The service (main.rs): main, handle_query, recursive_lookup, lookup.    *)
(* The service blocks in two places: handle_query's recv_from (svc =       *)
(* "recv") and lookup's recv_from (svc = "upstream"). An action runs the   *)
(* code from one blocking receive to the next. `handled` counts the        *)
(* requests received, `queries` and `replies` are the datagrams sent       *)
(* upstream and to the client since the last request was received; each    *)
(* query carries the depth of the recursive_lookup call that sent it and   *)
(* what came back for it.                                                  *)

MaxRequests == 2
MaxTrips == 3

\* recursive_lookup, line 125
RootServer == <<198, 41, 0, 4>>

\* a received datagram in a fresh buffer (recv_from into buf)
Received(datagram) == [buf |-> Patch(NewBuffer.buf, 0, datagram), pos |-> 0]

\* what a call returned, without the buffer it worked on
Outcome(r) == [st |-> r.st, msg |-> r.msg, val |-> r.val]
ReturnOk(v) == [st |-> "Ok", msg |-> "", val |-> v]

\* handle_query before recursive_lookup is called: no result
NotCalled == [st |-> "NotCalled", msg |-> "", val |-> DnsPacket_new]

\* lookup, lines 33-44: the query packet written to a fresh buffer
lookup_query(qname, qtype) ==
    DnsPacket_write([DnsPacket_new EXCEPT !.header.id = 1234,
                                          !.header.questions = 1,
                                          !.header.recursion_desired = TRUE,
                                          !.questions = <<DnsQuestions_new(qname, qtype)>>],
                    NewBuffer)

\* one activation of recursive_lookup: its arguments, its ns and the response
\* it holds while a nested resolution runs
Frame(qname, qtype, ns, response) ==
    [qname |-> qname, qtype |-> qtype, ns |-> ns, response |-> response]

Top(stk) == stk[Len(stk)]
Below(stk) == SubSeq(stk, 1, Len(stk) - 1)
WithNs(stk, ns) == [stk EXCEPT ![Len(stk)].ns = ns]
WithResponse(stk, response) == [stk EXCEPT ![Len(stk)].response = response]

\* where the resolution stands when control stops
Blocked(stk, sent) ==
    [svc |-> "upstream", stack |-> stk, queries |-> sent, result |-> NotCalled]
Returned(sent, result) ==
    [svc |-> "returned", stack |-> <<>>, queries |-> sent, result |-> result]
Crashed(stk, sent, msg) ==
    [svc |-> "panicked", stack |-> stk, queries |-> sent,
     result |-> [st |-> "Panic", msg |-> msg, val |-> DnsPacket_new]]

\* lookup, line 47: the query of the top frame, written in b, and what came
\* back for it
Query(stk, b, reply) ==
    [qname |-> Top(stk).qname, qtype |-> Top(stk).qtype,
     server |-> <<Top(stk).ns, 53>>, depth |-> Len(stk),
     datagram |-> SubSeq(b.buf, 1, b.pos), reply |-> reply]

\* the outstanding query got `reply`
Answered(sent, reply) == [sent EXCEPT ![Len(sent)].reply = reply]

\* recursive_lookup, line 138
is_final_answer(response) ==
    response.answers # <<>> /\ response.header.rescode = "NOERROR"

\* a test that no response passes, for the one of line 144
is_nxdomain_never(response) == FALSE

\* recursive_lookup, line 144
is_nxdomain(response) == response.header.rescode = "NXDOMAIN"

RECURSIVE send_lookup(_, _, _)
RECURSIVE return_to(_, _, _, _)

\* recursive_lookup, line 135, and lookup up to its recv_from: the top frame's
\* query is encoded and sent to its ns; `up` is whether the socket can be
\* bound and takes the datagram
send_lookup(stk, sent, up) ==
    Let(lookup_query(Top(stk).qname, Top(stk).qtype), LAMBDA q :
        IF q.st = "Panic" THEN Crashed(stk, sent, q.msg)
        ELSE IF q.st = "Err" THEN return_to(Below(stk), sent, up, Outcome(q))
        ELSE IF ~up THEN Crashed(stk, Append(sent, Query(stk, q.b, "send error")),
                                 "Error sending packet")
        ELSE Blocked(stk, Append(sent, Query(stk, q.b, "pending"))))

\* recursive_lookup, lines 166-174: a recursive_lookup call returned `result`
\* to the frame on top of stk, or to handle_query when stk is empty
return_to(stk, sent, up, result) ==
    IF stk = <<>> THEN Returned(sent, result)
    ELSE IF result.st # "Ok" THEN return_to(Below(stk), sent, up, result)
    ELSE Let(get_random_a(result.val), LAMBDA new_ns :
             IF new_ns # None THEN send_lookup(WithNs(stk, new_ns[1]), sent, up)
             ELSE return_to(Below(stk), sent, up, ReturnOk(Top(stk).response)))

\* recursive_lookup, lines 135-166: lookup returned r to the top frame
on_response(stk, sent, up, r) ==
    IF r.st = "Panic" THEN Crashed(stk, sent, r.msg)
    ELSE IF r.st = "Err" THEN return_to(Below(stk), sent, up, Outcome(r))
    ELSE IF is_final_answer(r.val)
        THEN return_to(Below(stk), sent, up, ReturnOk(r.val))
    ELSE IF is_nxdomain(r.val)
        THEN return_to(Below(stk), sent, up, ReturnOk(r.val))
    ELSE Let(get_resolved_ns(r.val, Top(stk).qname), LAMBDA new_ns :
         IF new_ns # None THEN send_lookup(WithNs(stk, new_ns[1]), sent, up)
         ELSE Let(get_unresolved_ns(r.val, Top(stk).qname), LAMBDA new_ns_name :
              IF new_ns_name = None THEN return_to(Below(stk), sent, up, ReturnOk(r.val))
              ELSE send_lookup(Append(WithResponse(stk, r.val),
                                      Frame(new_ns_name[1], RecordType("A"),
                                            RootServer, DnsPacket_new)),
                               sent, up)))

\* handle_query, lines 70-74
response_packet(id) ==
    [DnsPacket_new EXCEPT !.header.id = id,
                          !.header.recursion_desired = TRUE,
                          !.header.recursion_available = TRUE,
                          !.header.response = TRUE]

\* Vec::pop (line 77): the last element
pop(list) == IF list = <<>> THEN None ELSE Some(list[Len(list)])

\* a response code other than the one of line 103
no_question_rescode_servfail == "SERVFAIL"

\* handle_query, line 103
no_question_rescode == "FORMERR"

\* handle_query, line 99
lookup_failed_rescode == "SERVFAIL"

\* handle_query, lines 83-100: the response packet after recursive_lookup
answer_packet(res_packet, question, result) ==
    IF result.st = "Ok"
    THEN [res_packet EXCEPT !.header.rescode = result.val.header.rescode,
                            !.questions = Append(@, question),
                            !.answers = @ \o result.val.answers,
                            !.authorities = @ \o result.val.authorities,
                            !.resources = @ \o result.val.resources]
    ELSE [res_packet EXCEPT !.header.rescode = lookup_failed_rescode]

\* the result of the handle_query call in progress
Handled(st, msg) ==
    [op |-> "handle_query", arg |-> handled', pos0 |-> 0, st |-> st, msg |-> msg, val |-> 0]

\* handle_query, lines 109-111, and main, lines 18-21: w is what encoding the
\* response returned; the datagram is sent unless the encoding failed, and an
\* encoding error leaves handle_query and main
Send(w) ==
    /\ buf' = w.b.buf
    /\ pos' = w.b.pos
    /\ stack' = <<>>
    /\ svc' = CASE w.st = "Ok" -> "recv"
                [] w.st = "Err" -> "exited"
                [] OTHER -> "panicked"
    /\ replies' = IF w.st = "Ok"
                  THEN <<[to |-> handled',
                          packet |-> w.val,
                          datagram |-> SubSeq(w.b.buf, 1, w.b.pos)]>>
                  ELSE <<>>
    /\ last' = Handled(w.st, w.msg)

\* handle_query, lines 107-108: the response is encoded into a fresh buffer
Respond(res_packet) == Send(DnsPacket_write(res_packet, NewBuffer))

\* the resolution stopped in m while handling the request of `id` and `question`;
\* b is the buffer the last datagram was decoded from
Continue(id, question, m, b) ==
    /\ queries' = m.queries
    /\ request' = [id |-> id, question |-> question, result |-> m.result]
    /\ CASE m.svc = "returned" ->
                Respond(answer_packet(response_packet(id), question[1], m.result))
         [] m.svc = "upstream" ->
                /\ svc' = "upstream"
                /\ stack' = m.stack
                /\ last' = Handled("Pending", "")
                /\ buf' = b.buf
                /\ pos' = b.pos
                /\ replies' = <<>>
         [] OTHER ->
                /\ svc' = "panicked"
                /\ stack' = m.stack
                /\ last' = Handled("Panic", m.result.msg)
                /\ buf' = b.buf
                /\ pos' = b.pos
                /\ replies' = <<>>

\* --- datagrams ---

NameA == <<97>>
NameN == <<110>>

\* "www.example.com", "example.com", "ns1.example.com", "ns0.example.com"
ExampleCom == <<101, 120, 97, 109, 112, 108, 101, Dot, 99, 111, 109>>
WwwExampleCom == <<119, 119, 119, Dot>> \o ExampleCom
Ns1ExampleCom == <<110, 115, 49, Dot>> \o ExampleCom
Ns0ExampleCom == <<110, 115, 48, Dot>> \o ExampleCom

WireQuestion(name, qtype) == WireName(split(name)) \o <<0, qtype>> \o <<0, 1>>

\* a resource record of class IN, ttl 3600
WireRecord(name, qtype, rdata) ==
    name \o <<0, qtype>> \o <<0, 1>> \o <<0, 0, 14, 16>> \o <<0, Len(rdata)>> \o rdata

\* requests: one question, no question, two questions, one question for
\* www.example.com, a name that is a pointer to itself, and a name that is a pointer past the end of the buffer
RequestDatagrams ==
    { WireHeader(7, 1, 0, 0, 0) \o WireQuestion(NameA, 1),
      WireHeader(4660, 0, 0, 0, 0),
      WireHeader(8, 2, 0, 0, 0) \o WireQuestion(NameA, 1) \o WireQuestion(NameN, 1),
      WireHeader(11, 1, 0, 0, 0) \o WireQuestion(WwwExampleCom, 1),
      WireHeader(9, 1, 0, 0, 0) \o Pointer(12),
      WireHeader(10, 1, 0, 0, 0) \o Pointer(600) }

ReplyKinds ==
    {"answer", "nxdomain", "nxdomain referral", "glue", "late glue", "referral",
     "empty", "servfail", "garbage"}

\* the header of an upstream reply to a query of lookup: id 1234, response,
\* recursion desired and available, one question
WireReplyHeader(rescode, an, ns, ar) ==
    <<4, 210, 129, 128 + rescode, 0, 1, 0, an, 0, ns, 0, ar>>

\* where the zone of qname starts in a reply that echoes the question at
\* offset 12: past the first label of a name of several labels
ZoneOffset(qname) ==
    IF Len(split(qname)) > 1 THEN 12 + 1 + Len(split(qname)[1]) ELSE 12

\* the name servers of the zone of qname: ns1 (ns0) in the zone of a name of
\* several labels, n (a) for a name of one label
WireNs1(qname) ==
    IF Len(split(qname)) > 1 THEN <<3, 110, 115, 49>> \o Pointer(ZoneOffset(qname))
    ELSE WireName(<<NameN>>)
WireNs0(qname) ==
    IF Len(split(qname)) > 1 THEN <<3, 110, 115, 48>> \o Pointer(ZoneOffset(qname))
    ELSE WireName(<<NameA>>)

\* the referral of the zone of qname to ns1, and the glue of ns1
WireReferral(qname) == WireRecord(Pointer(ZoneOffset(qname)), 2, WireNs1(qname))
WireGlue(qname) == WireRecord(WireNs1(qname), 1, <<10, 0, 0, 2>>)

\* an upstream reply to the question (qname, qtype); the records name the
\* question's name, or its zone, through a pointer into the echoed question
UpstreamDatagram(kind, qname, qtype) ==
    CASE kind = "answer" ->
            WireReplyHeader(0, 1, 0, 0) \o WireQuestion(qname, qtype)
                \o WireRecord(Pointer(12), 1, <<10, 0, 0, 1>>)
      [] kind = "nxdomain" ->
            WireReplyHeader(3, 0, 0, 0) \o WireQuestion(qname, qtype)
      [] kind = "nxdomain referral" ->
            WireReplyHeader(3, 0, 1, 1) \o WireQuestion(qname, qtype)
                \o WireReferral(qname) \o WireGlue(qname)
      [] kind = "glue" ->
            WireReplyHeader(0, 0, 1, 1) \o WireQuestion(qname, qtype)
                \o WireReferral(qname) \o WireGlue(qname)
      [] kind = "late glue" ->
            WireReplyHeader(0, 0, 2, 1) \o WireQuestion(qname, qtype)
                \o WireRecord(Pointer(ZoneOffset(qname)), 2, WireNs0(qname))
                \o WireReferral(qname) \o WireGlue(qname)
      [] kind = "referral" ->
            WireReplyHeader(0, 0, 1, 0) \o WireQuestion(qname, qtype)
                \o WireReferral(qname)
      [] kind = "empty" ->
            WireReplyHeader(0, 0, 0, 0) \o WireQuestion(qname, qtype)
      [] kind = "servfail" ->
            WireReplyHeader(2, 0, 0, 0) \o WireQuestion(qname, qtype)
      [] OTHER ->
            WireReplyHeader(0, 0, 0, 0) \o Pointer(12)

\* the reply of `kind` to query q, as lookup decodes it
ReplyDecoded(kind, q) ==
    DnsPacket_from_buffer(Received(UpstreamDatagram(kind, q.qname, to_num(q.qtype))))

InitService ==
    /\ buf = NewBuffer.buf
    /\ pos = NewBuffer.pos
    /\ input = [datagram |-> <<>>]
    /\ pc = "serving"
    /\ last = NoOp
    /\ nops = 0
    /\ svc = "recv"
    /\ request = [id |-> 0, question |-> None, result |-> NotCalled]
    /\ stack = <<>>
    /\ queries = <<>>
    /\ replies = <<>>
    /\ handled = 0

\* handle_query, lines 67-104: r is what decoding the request returned
Decoded(r, up) ==
    IF r.st # "Ok"
    THEN /\ svc' = IF r.st = "Err" THEN "exited" ELSE "panicked"
         /\ last' = Handled(r.st, r.msg)
         /\ buf' = r.b.buf
         /\ pos' = r.b.pos
         /\ queries' = <<>>
         /\ request' = [id |-> 0, question |-> None, result |-> NotCalled]
         /\ stack' = <<>>
         /\ replies' = <<>>
    ELSE IF pop(r.val.questions) = None
    THEN /\ queries' = <<>>
         /\ request' = [id |-> r.val.header.id, question |-> None, result |-> NotCalled]
         /\ Respond([response_packet(r.val.header.id)
                        EXCEPT !.header.rescode = no_question_rescode])
    ELSE Continue(r.val.header.id, pop(r.val.questions),
                  send_lookup(<<Frame(pop(r.val.questions)[1].name,
                                      pop(r.val.questions)[1].qtype,
                                      RootServer, DnsPacket_new)>>,
                              <<>>, up),
                  r.b)

\* main and handle_query, lines 60-67: a request datagram arrives
RecvRequest ==
    /\ svc = "recv"
    /\ handled < MaxRequests
    /\ \E datagram \in RequestDatagrams, up \in BOOLEAN :
         /\ input' = [datagram |-> datagram]
         /\ handled' = handled + 1
         /\ Decoded(DnsPacket_from_buffer(Received(datagram)), up)
    /\ UNCHANGED <<pc, nops>>

\* lookup, line 54, and what follows up to the next receive: r is what decoding
\* the reply to the outstanding query returned
Replied(r, up, kind) ==
    Continue(request.id, request.question,
             on_response(stack, Answered(queries, kind), up, r), r.b)

\* lookup, lines 52-54: a reply to the outstanding query arrives; no more than
\* MaxTrips queries are followed per request
UpstreamReply ==
    /\ svc = "upstream"
    /\ \E kind \in ReplyKinds, up \in BOOLEAN :
         /\ handled' = handled
         /\ Replied(DnsPacket_from_buffer(
                        Received(UpstreamDatagram(kind, Top(stack).qname,
                                                  to_num(Top(stack).qtype)))),
                    up, kind)
         /\ Len(queries') <= MaxTrips
    /\ UNCHANGED <<pc, nops, input>>

\* lookup, line 52: recv_from fails
UpstreamSocketError ==
    /\ svc = "upstream"
    /\ svc' = "panicked"
    /\ last' = [last EXCEPT !.st = "Panic", !.msg = "Error receiving packet"]
    /\ queries' = Answered(queries, "recv error")
    /\ UNCHANGED <<buf, pos, pc, input, nops, request, stack, replies, handled>>

NextService == RecvRequest \/ UpstreamReply \/ UpstreamSocketError

SpecService == InitService /\ [][NextService]_vars

\* the request being handled, or last handled, as the service decodes it
RequestDecoded == DnsPacket_from_buffer(Received(input.datagram))

\* handle_query has returned, or the process has ended, for the last request
RequestDone == handled > 0 /\ last.op = "handle_query" /\ svc # "upstream"

U16Of(bytes, p) == bytes[p + 1] * 256 + bytes[p + 2]

\* a response of response code `rescode`, carrying the request's id in its
\* header and in its first two bytes, has been sent for the last request
RepliedWith(rescode) ==
    /\ Len(replies) = 1
    /\ replies[1].to = handled
    /\ replies[1].packet.header.rescode = rescode
    /\ replies[1].packet.header.response
    /\ replies[1].packet.header.id = RequestDecoded.val.header.id
    /\ U16Of(replies[1].datagram, 0) = RequestDecoded.val.header.id

\* C9: a request that fails to decode is answered with FORMERR, causes no
\* upstream query, and leaves the service reading the next request.
UndecodableRequestGetsFormErr ==
    (RequestDone /\ RequestDecoded.st = "Err") =>
        /\ svc = "recv"
        /\ Len(replies) = 1
        /\ replies[1].packet.header.rescode = "FORMERR"
        /\ queries = <<>>

\* C10: a request that decodes to zero questions is answered with FORMERR and
\* the request's id, and no upstream query is sent while handling it.
NoQuestionGetsFormErr ==
    (RequestDone /\ RequestDecoded.st = "Ok" /\ RequestDecoded.val.questions = <<>>) =>
        /\ RepliedWith("FORMERR")
        /\ queries = <<>>

\* a request of id 4660 without questions has been answered
NoQuestionWitness ==
    /\ RequestDone
    /\ RequestDecoded.st = "Ok"
    /\ RequestDecoded.val.questions = <<>>
    /\ RequestDecoded.val.header.id = 4660
    /\ RepliedWith("FORMERR")
    /\ queries = <<>>
    /\ svc = "recv"

----------------------------------------------------------------------------
(* Resolution, read off the exchanges with the upstream servers.           *)

\* the last query sent by the recursive_lookup call handle_query made
RECURSIVE LastAtDepth1(_)
LastAtDepth1(sent) ==
    IF sent[Len(sent)].depth = 1 THEN sent[Len(sent)]
    ELSE LastAtDepth1(SubSeq(sent, 1, Len(sent) - 1))

\* the response that call holds: the reply to its last query
OriginalResponse == ReplyDecoded(LastAtDepth1(queries).reply, LastAtDepth1(queries)).val

\* handle_query went past recursive_lookup for the last request, and the last
\* reply came for a query of a nested resolution: no query followed it, so the
\* nested resolution failed or brought no A record
NestedResolutionGaveNothing ==
    /\ RequestDone
    /\ svc \in {"recv", "exited"}
    /\ queries # <<>>
    /\ queries[Len(queries)].depth >= 2
    /\ queries[Len(queries)].reply \in ReplyKinds

\* C11: when the nested resolution of a name-server host fails or returns no A
\* record, recursive_lookup returns Ok with the original unresolved response.
NestedFailureReturnsOriginal ==
    NestedResolutionGaveNothing => request.result = ReturnOk(OriginalResponse)

\* C12: for a request carrying questions, the queries handle_query's
\* recursive_lookup call sends are for the first question decoded, and the
\* response sent after a resolution carries that question and no other.
FirstQuestionAnswered ==
    (handled > 0 /\ RequestDecoded.st = "Ok" /\ RequestDecoded.val.questions # <<>>) =>
        /\ \A i \in 1..Len(queries) :
              queries[i].depth = 1 =>
                  /\ queries[i].qname = RequestDecoded.val.questions[1].name
                  /\ queries[i].qtype = RequestDecoded.val.questions[1].qtype
        /\ (Len(replies) = 1 /\ request.result.st = "Ok") =>
              replies[1].packet.questions = <<RequestDecoded.val.questions[1]>>

\* C13: for every request datagram received, exactly one response datagram is
\* sent, and it is sent before the next request is read: never more than one
\* response per request, and whenever the service is not waiting for an upstream
\* reply it has answered the last request received and is ready for the next.
OneResponsePerRequest ==
    /\ Len(replies) <= 1
    /\ (handled > 0 /\ svc # "upstream") =>
          /\ Len(replies) = 1
          /\ replies[1].to = handled
          /\ svc = "recv"

\* a query of the last request could not be sent, or its reply could not be
\* received or decoded
ResolutionFailed ==
    \E i \in 1..Len(queries) : queries[i].reply \in {"send error", "recv error", "garbage"}

\* C14: whenever the resolution fails after the request was decoded (a send or
\* receive error, or a reply that does not decode, at any hop), the client gets
\* a SERVFAIL response with the request's id and the service goes on.
FailedResolutionGetsServFail ==
    (handled > 0 /\ ResolutionFailed) =>
        /\ svc = "recv"
        /\ RepliedWith("SERVFAIL")

GluedAddress == <<10, 0, 0, 2>>

\* C15: when the root answers with a referral that carries glue and the glued
\* server answers with a final A record, recursive_lookup returns that answer
\* after exactly two round trips, the second query sent to the glued address.
TwoRoundTripsThroughGlue ==
    (Len(queries) >= 2 /\ queries[1].reply = "glue") =>
        /\ queries[1].server = <<RootServer, 53>>
        /\ queries[2].server = <<GluedAddress, 53>>
        /\ queries[2].depth = 1
        /\ queries[2].qname = queries[1].qname
        /\ queries[2].qtype = queries[1].qtype
        /\ queries[2].reply = "answer" =>
              /\ Len(queries) = 2
              /\ svc = "recv"
              /\ request.result = ReturnOk(ReplyDecoded("answer", queries[2]).val)
              /\ request.result.val.answers =
                     <<DnsRecord_A(queries[1].qname, <<10, 0, 0, 1>>, U32(0, 3600))>>

\* www.example.com has been resolved through the glue of ns1.example.com
TwoRoundTripsWitness ==
    /\ svc = "recv"
    /\ Len(queries) = 2
    /\ queries[1].qname = WwwExampleCom
    /\ queries[1].reply = "glue"
    /\ ReplyDecoded("glue", queries[1]).val.authorities =
           <<DnsRecord_NS(ExampleCom, Ns1ExampleCom, U32(0, 3600))>>
    /\ ReplyDecoded("glue", queries[1]).val.resources =
           <<DnsRecord_A(Ns1ExampleCom, GluedAddress, U32(0, 3600))>>
    /\ queries[2].server = <<GluedAddress, 53>>
    /\ queries[2].reply = "answer"
    /\ request.result.st = "Ok"
    /\ request.result.val.answers # <<>>

NxDomainKinds == {"nxdomain", "nxdomain referral"}

\* C16: a reply of response code NXDOMAIN ends the resolution at once: no query
\* follows it, even when it carries NS records matching the name together
\* with glue, and the recursive_lookup call that received it returns it
\* unchanged.
NxDomainEndsResolution ==
    \A i \in 1..Len(queries) :
        queries[i].reply \in NxDomainKinds =>
            /\ i = Len(queries)
            /\ svc = "recv"
            /\ queries[i].depth = 1 =>
                  request.result = ReturnOk(ReplyDecoded(queries[i].reply, queries[i]).val)

\* an NXDOMAIN reply that carries a matching NS record and its glue has been
\* returned to handle_query
NxDomainWitness ==
    /\ svc = "recv"
    /\ Len(queries) = 1
    /\ queries[1].reply = "nxdomain referral"
    /\ get_resolved_ns(ReplyDecoded("nxdomain referral", queries[1]).val,
                       queries[1].qname) = Some(GluedAddress)
    /\ request.result.st = "Ok"
    /\ request.result.val.header.rescode = "NXDOMAIN"
    /\ request.result.val.authorities # <<>>

----------------------------------------------------------------------------
(* The extent of a message by its layout (RFC 1035, 4.1): the 12-byte      *)
(* header, the declared questions (name, type, class) and the declared     *)
(* records (name, type, class, ttl, data length, data). An offset past the *)
(* capacity stands for a field that is not in the buffer.                  *)

PastCapacity == BufLen + 1

\* the offset after the name at p: labels up to the empty one, or up to a
\* 2-byte pointer
RECURSIVE NameEnd(_, _)
NameEnd(f, p) ==
    IF p >= BufLen THEN PastCapacity
    ELSE IF f[p + 1] = 0 THEN p + 1
    ELSE IF f[p + 1] >= 192 THEN (IF p + 2 > BufLen THEN PastCapacity ELSE p + 2)
    ELSE NameEnd(f, p + 1 + f[p + 1])

\* the offset after n questions starting at p
RECURSIVE QuestionsEnd(_, _, _)
QuestionsEnd(f, p, n) ==
    IF p > BufLen THEN PastCapacity
    ELSE IF n = 0 THEN p
    ELSE QuestionsEnd(f, NameEnd(f, p) + 4, n - 1)

\* the offset after the record whose name ends at q
RecordEndFrom(f, q) ==
    IF q + 10 > BufLen THEN PastCapacity
    ELSE q + 10 + f[q + 9] * 256 + f[q + 10]

\* the offset after n records starting at p
RECURSIVE RecordsEnd(_, _, _)
RecordsEnd(f, p, n) ==
    IF p > BufLen THEN PastCapacity
    ELSE IF n = 0 THEN p
    ELSE RecordsEnd(f, RecordEndFrom(f, NameEnd(f, p)), n - 1)

\* the offset after the message that starts at `start`
MessageEnd(f, start) ==
    IF start + 12 > BufLen THEN PastCapacity
    ELSE RecordsEnd(f,
                    QuestionsEnd(f, start + 12,
                                 f[start + 5] * 256 + f[start + 6]),
                    f[start + 7] * 256 + f[start + 8]
                        + f[start + 9] * 256 + f[start + 10]
                        + f[start + 11] * 256 + f[start + 12])

\* C17: DnsPacket::from_buffer returns Ok only for a message whose header,
\* declared questions (their class included) and declared records all lie
\* within the buffer's capacity; a read past it fails the whole decode.
ShortReadFailsDecode ==
    (last.op = "DnsPacket::from_buffer" /\ last.st = "Ok") =>
        MessageEnd(buf, last.pos0) <= BufLen

----------------------------------------------------------------------------
(* The response as its receiver reads it                                   *)

\* the datagram sent for the last request, decoded
SentDecoded == DnsPacket_from_buffer(Received(replies[1].datagram))

\* C18: when recursive_lookup succeeds, the response the service sends has the
\* request's id, response, recursion_desired and recursion_available set, the
\* resolver result's response code, and answer, authority and additional
\* sections equal to those of the resolver's result.
SentResponseCarriesResult ==
    (RequestDone /\ Len(replies) = 1 /\ request.result.st = "Ok") =>
        /\ SentDecoded.st = "Ok"
        /\ SentDecoded.val.header.id = request.id
        /\ SentDecoded.val.header.response
        /\ SentDecoded.val.header.recursion_desired
        /\ SentDecoded.val.header.recursion_available
        /\ SentDecoded.val.header.rescode = request.result.val.header.rescode
        /\ SentDecoded.val.answers = request.result.val.answers
        /\ SentDecoded.val.authorities = request.result.val.authorities
        /\ SentDecoded.val.resources = request.result.val.resources

----------------------------------------------------------------------------
(* Referrals, read off the exchanges                                       *)

\* what came back for query i, decoded
ReplyTo(i) == ReplyDecoded(queries[i].reply, queries[i])

\* r is a decoded response that is neither a final answer nor NXDOMAIN
IsReferral(r) ==
    /\ r.st = "Ok"
    /\ ~(r.val.answers # <<>> /\ r.val.header.rescode = "NOERROR")
    /\ r.val.header.rescode # "NXDOMAIN"

\* the hosts of the NS records of `response` whose domain ends qname
MatchingHosts(response, qname) ==
    { response.authorities[k].host :
        k \in { k \in 1..Len(response.authorities) :
                  /\ response.authorities[k].variant = "NS"
                  /\ ends_with(qname, response.authorities[k].domain) } }

\* the addresses the additional section of `response` gives for `hosts`
GluedAddresses(response, hosts) ==
    { response.resources[k].addr :
        k \in { k \in 1..Len(response.resources) :
                  /\ response.resources[k].variant = "A"
                  /\ response.resources[k].domain \in hosts } }

\* query i was answered by a referral; hosts are its matching name servers
\* and glued the addresses it gives for them
ReferralFollowed(i, hosts, glued) ==
    /\ glued # {} =>
          /\ i < Len(queries)
          /\ queries[i + 1].depth = queries[i].depth
          /\ queries[i + 1].qname = queries[i].qname
          /\ queries[i + 1].qtype = queries[i].qtype
          /\ queries[i + 1].server[1] \in glued
    /\ (i < Len(queries) /\ queries[i + 1].depth > queries[i].depth) =>
          /\ glued = {}
          /\ queries[i + 1].depth = queries[i].depth + 1
          /\ queries[i + 1].qname \in hosts
          /\ queries[i + 1].qtype = RecordType("A")
          /\ queries[i + 1].server = <<RootServer, 53>>

\* C19: after a referral, a nested lookup for a name-server host is started
\* only when no matching NS host has an A record in the additional section;
\* when some matching NS host has one, the next query is the same question
\* sent to a glued address by the same recursive_lookup call.
GlueBeforeNestedLookup ==
    \A i \in 1..Len(queries) :
        queries[i].reply \in ReplyKinds =>
            LET r == ReplyTo(i)
                hosts == MatchingHosts(r.val, queries[i].qname)
            IN  IsReferral(r) =>
                    ReferralFollowed(i, hosts, GluedAddresses(r.val, hosts))

\* a referral whose first matching name server has no glue and whose second
\* has has been followed to the glued address, and a referral without glue
\* has started a nested lookup
GlueBeforeNestedWitness ==
    /\ Len(queries) = 3
    /\ queries[1].reply = "referral"
    /\ queries[2].depth = 2
    /\ queries[2].reply = "late glue"
    /\ Cardinality(MatchingHosts(ReplyTo(2).val, queries[2].qname)) = 2
    /\ GluedAddresses(ReplyTo(2).val,
                      MatchingHosts(ReplyTo(2).val, queries[2].qname)) = {GluedAddress}
    /\ queries[3].depth = 2
    /\ queries[3].server = <<GluedAddress, 53>>

----------------------------------------------------------------------------
(* An upstream that only refers                                            *)

\* r is a decoded NOERROR response with an empty answer section and an NS
\* record matching qname
IsNoErrorReferral(r, qname) ==
    /\ r.st = "Ok"
    /\ r.val.header.rescode = "NOERROR"
    /\ r.val.answers = <<>>
    /\ MatchingHosts(r.val, qname) # {}

\* every query of the request in progress up to the n-th was answered with
\* such a referral
OnlyReferrals(n) ==
    \A i \in 1..n :
        /\ queries[i].reply \in ReplyKinds
        /\ IsNoErrorReferral(ReplyTo(i), queries[i].qname)

\* query i is waiting for its reply
Pending(i) == queries[i].reply = "pending"

\* C20: while the upstream answers every query with a NOERROR referral, glued
\* or not, recursive_lookup does not return: whatever the number of round
\* trips and the depth of nesting so far, handle_query's call has no result
\* and one more query is waiting for its reply.
OnlyReferralsNeverReturn ==
    (queries # <<>> /\ OnlyReferrals(Len(queries) - 1)
                    /\ (Pending(Len(queries)) \/ OnlyReferrals(Len(queries)))) =>
        /\ Pending(Len(queries))
        /\ svc = "upstream"
        /\ request.result = NotCalled
        /\ replies = <<>>
        /\ Len(stack) = queries[Len(queries)].depth

\* MaxTrips queries have been sent, each but the last answered by a referral
\* without glue, and the nesting is MaxTrips deep
UnboundedNestingWitness ==
    /\ Len(queries) = MaxTrips
    /\ OnlyReferrals(MaxTrips - 1)
    /\ \A i \in 1..MaxTrips : queries[i].depth = i
    /\ \A i \in 1..(MaxTrips - 1) :
          GluedAddresses(ReplyTo(i).val,
                         MatchingHosts(ReplyTo(i).val, queries[i].qname)) = {}
    /\ Pending(MaxTrips)
    /\ svc = "upstream"

----------------------------------------------------------------------------
(* How read_qname ends                                                     *)

\* the content is a pointer at 200 that points at itself, or heads a cycle
PointerCycle == input.kind = "edge" /\ input.start = 200 /\ buf[201] >= 192

\* C21: read_qname returns Ok or Err for every content and every start
\* position, contents whose pointers form a cycle included, which end with
\* the jump-limit error.
ReadQnameReturns ==
    pc = "done" =>
        /\ last.st \in {"Ok", "Err"}
        /\ PointerCycle => (last.st = "Err" /\ last.msg = JumpLimit)

----------------------------------------------------------------------------
(* A name written at a cursor, the cursor moved back, the name read.       *)

\* a label of 63 bytes and one of 64
Label63 == [i \in 1..63 |-> 97]
Label64 == [i \in 1..64 |-> 97]

\* names to write: lower-case names of one to three labels, one with a digit
\* and a hyphen, one with a label of 63 bytes; then an upper-case name, the
\* empty name, a name with an empty label and one with a label of 64 bytes
QnamesToWrite ==
    { <<97>>, <<97, 98, Dot, 99>>, WwwExampleCom, <<110, 115, 45, 49, Dot, 97>>,
      Label63 \o <<Dot, 98>>,
      <<65, 98>>, <<>>, <<97, Dot, Dot, 98>>, Label64 }

\* cursors a name is written at; at 509 a name of one byte ends the buffer
QnameStarts == {0, 12, 300, 445, 509, 510}

InitName ==
    /\ \E qname \in QnamesToWrite, start \in QnameStarts, fill \in {0, 192} :
          /\ buf = Filled(fill)
          /\ pos = start
          /\ input = [qname |-> qname, start |-> start]
    /\ pc = "start"
    /\ last = NoOp
    /\ nops = 0
    /\ ServiceIdle

\* BytePacketBuffer::write_qname of the name at the cursor
QnameWrite ==
    /\ pc = "start"
    /\ pc' = "written"
    /\ Apply("write_qname", input.qname, write_qname(Cur, input.qname))
    /\ UNCHANGED input

\* BytePacketBuffer::read_qname at the cursor, into an empty string
QnameRead ==
    /\ pc = "rewound"
    /\ pc' = "read"
    /\ Apply("read_qname", 0, read_qname(Cur, <<>>))
    /\ UNCHANGED input

NextName == QnameWrite \/ SeekBack \/ QnameRead

SpecName == InitName /\ [][NextName]_vars

\* the labels of a name are non-empty, lower-case and of at most 63 bytes
PlainLabels(qname) ==
    \A i \in 1..Len(split(qname)) :
        /\ split(qname)[i] # <<>>
        /\ Len(split(qname)[i]) <= 63
        /\ \A k \in 1..Len(split(qname)[i]) :
              ~(split(qname)[i][k] >= 65 /\ split(qname)[i][k] <= 90)

\* the length of a name in label form: its bytes, with a length byte in place
\* of each dot, one more length byte and the final zero
WireLength(qname) == Len(qname) + 2

\* the name written fits between its start and the end of the buffer
Fits == input.start + WireLength(input.qname) <= BufLen

\* C22: a name of non-empty lower-case labels of at most 63 bytes that fits
\* is written in full label form, and read_qname from where the write started
\* returns the same name and leaves the cursor where write_qname left it, one
\* past the terminating zero byte.
QnameRoundTrip ==
    (PlainLabels(input.qname) /\ Fits) =>
        /\ pc = "written" =>
              /\ last.st = "Ok"
              /\ pos = input.start + WireLength(input.qname)
              /\ SubSeq(buf, input.start + 1, pos) = WireName(split(input.qname))
        /\ pc = "read" =>
              /\ last.st = "Ok"
              /\ last.val = input.qname
              /\ pos = input.start + WireLength(input.qname)
              /\ buf[pos] = 0

\* a name with a label of 63 bytes, written so that it ends the buffer, has
\* been read back
QnameRoundTripWitness ==
    /\ pc = "read"
    /\ input.qname = Label63 \o <<Dot, 98>>
    /\ input.start = 445
    /\ buf[1] = 192
    /\ last.st = "Ok"
    /\ last.val = input.qname
    /\ pos = BufLen

----------------------------------------------------------------------------
(* The flag bytes of a header, bit by bit (RFC 1035, 4.1.1)                *)

\* bit n of byte x, bit 0 being the least significant
BitOf(x, n) == (x \div (2 ^ n)) % 2

\* the two flag bytes of the header at the start position
FlagByte1 == buf[input.start + 3]
FlagByte2 == buf[input.start + 4]

\* header h has its fields at the RFC 1035 bit positions of the flag bytes
FlagsAtRfcPositions(h) ==
    /\ BitOf(FlagByte1, 7) = BoolAsU8(h.response)
    /\ (FlagByte1 \div 8) % 16 = h.opcode
    /\ BitOf(FlagByte1, 2) = BoolAsU8(h.authoritative_answer)
    /\ BitOf(FlagByte1, 1) = BoolAsU8(h.truncated_message)
    /\ BitOf(FlagByte1, 0) = BoolAsU8(h.recursion_desired)
    /\ BitOf(FlagByte2, 7) = BoolAsU8(h.recursion_available)
    /\ BitOf(FlagByte2, 6) = BoolAsU8(h.z)
    /\ BitOf(FlagByte2, 5) = BoolAsU8(h.authed_data)
    /\ BitOf(FlagByte2, 4) = BoolAsU8(h.checking_disabled)
    /\ FlagByte2 % 16 = ResultCode_to_num(h.rescode)

\* C23: DnsHeader::write places response, opcode, authoritative, truncated and
\* recursion-desired at bits 7, 6-3, 2, 1, 0 of flags byte 1 and
\* recursion-available, z, authenticated-data, checking-disabled and the
\* response code at bits 7, 6, 5, 4, 3-0 of flags byte 2; DnsHeader::read takes
\* each field from the same bits.
HeaderFlagsAtRfcPositions ==
    /\ (pc = "written" /\ last.op = "DnsHeader::write" /\ last.st = "Ok") =>
           FlagsAtRfcPositions(input.header)
    /\ (pc = "read" /\ last.op = "DnsHeader::read" /\ last.st = "Ok") =>
           FlagsAtRfcPositions(last.val)

\* a header with authed_data alone raised, opcode 10 and SERVFAIL has been
\* written as the flag bytes 0x50 0x22 and read
HeaderFlagsWitness ==
    /\ pc = "read"
    /\ last.op = "DnsHeader::read"
    /\ last.st = "Ok"
    /\ input.header = HeaderOf({"authed_data"}, 10, "SERVFAIL", 4660, <<1, 258, 0, 65535>>)
    /\ FlagByte1 = 80
    /\ FlagByte2 = 34
    /\ last.val.authed_data
    /\ ~last.val.checking_disabled

----------------------------------------------------------------------------
(* Words read whole or not at all                                          *)

\* the byte at offset p of the buffer
ByteAt(p) == buf[p + 1]

\* C24: read_u16 and read_u32 either succeed, advance the cursor by exactly 2
\* (4) bytes and return the big-endian value of those bytes, or fail and leave
\* the cursor where it was.
WordsReadWhole ==
    /\ last.op = "read_u16" =>
          \/ /\ last.st = "Ok"
             /\ pos = last.pos0 + 2
             /\ pos <= BufLen
             /\ last.val = ByteAt(last.pos0) * 256 + ByteAt(last.pos0 + 1)
          \/ /\ last.st = "Err"
             /\ pos = last.pos0
    /\ last.op = "read_u32" =>
          \/ /\ last.st = "Ok"
             /\ pos = last.pos0 + 4
             /\ pos <= BufLen
             /\ last.val = U32(ByteAt(last.pos0) * 256 + ByteAt(last.pos0 + 1),
                               ByteAt(last.pos0 + 2) * 256 + ByteAt(last.pos0 + 3))
          \/ /\ last.st = "Err"
             /\ pos = last.pos0

\* the last four bytes of the buffer have been read as one word
WordsReadWholeWitness ==
    /\ last.op = "read_u32"
    /\ last.pos0 = 508
    /\ last.st = "Ok"
    /\ last.val = U32(0, 192)
    /\ pos = BufLen

----------------------------------------------------------------------------
(* What a record write leaves of the bytes written before it               *)

\* C25: DnsRecord::write changes no byte below the cursor it started at, for
\* every variant and every start position, whether it succeeds or fails.
RecordWriteKeepsEarlierBytes ==
    (pc = "written" /\ last.op = "DnsRecord::write") =>
        \A p \in 0..(input.start - 1) : ByteAt(p) = WrittenUpTo(input.start, 1)[p + 1]

----------------------------------------------------------------------------
(* A record received, read from where it starts.                           *)

\* a resource record of class IN and ttl 3600 that declares data_len bytes of
\* data and is followed by rdata
WireRecordDeclaring(name, qtype, data_len, rdata) ==
    name \o <<0, qtype>> \o <<0, 1>> \o <<0, 0, 14, 16>> \o <<0, data_len>> \o rdata

\* the data of a well-formed record of each type: A, NS, CNAME, MX, AAAA and
\* TXT, which the codec does not know
WireData ==
    { [qtype |-> 1,  rdata |-> <<10, 0, 0, 1>>],
      [qtype |-> 2,  rdata |-> WireName(<<<<110, 115>>, <<97>>>>)],
      [qtype |-> 5,  rdata |-> WireName(<<<<98>>>>)],
      [qtype |-> 15, rdata |-> <<0, 10>> \o WireName(<<<<109>>, <<97>>>>)],
      [qtype |-> 28, rdata |-> <<0, 0, 0, 0, 0, 0, 0, 0, 0, 0, 0, 0, 0, 0, 0, 1>>],
      [qtype |-> 16, rdata |-> <<2, 104, 105>>] }

\* bytes that follow the data of a record without being part of its name
Padding == <<0, 0>>

\* records whose declared data length is the length of their data, and
\* records that declare two bytes more and carry them after the data
WireRecords ==
    { [bytes |-> WireRecordDeclaring(WireName(split(d)), w.qtype,
                                     Len(w.rdata) + extra,
                                     w.rdata \o SubSeq(Padding, 1, extra)),
       qtype |-> w.qtype,
       extra |-> extra] : d \in Names, w \in WireData, extra \in {0, 2} }

InitWire ==
    /\ \E w \in WireRecords, start \in {0, 12, 100}, fill \in {0, 1} :
          /\ buf = Patch(Filled(fill), start, w.bytes)
          /\ pos = start
          /\ input = [start |-> start, qtype |-> w.qtype, extra |-> w.extra]
    /\ pc = "start"
    /\ last = NoOp
    /\ nops = 0
    /\ ServiceIdle

\* DnsRecord::read of the record at the cursor
WireRead ==
    /\ pc = "start"
    /\ pc' = "read"
    /\ Apply("DnsRecord::read", 0, DnsRecord_read(Cur))
    /\ UNCHANGED input

NextWire == WireRead

SpecWire == InitWire /\ [][NextWire]_vars

\* C26: a successful DnsRecord::read leaves the cursor just past the rdlength
\* field plus the rdlength read, for every variant, so that the next record
\* is decoded from where the wire format says it starts.
RecordReadConsumesDataLength ==
    (pc = "read" /\ last.st = "Ok") =>
        pos = RecordEndFrom(buf, NameEnd(buf, input.start))

====
